---- MODULE Spec2Model ----
(***************************************************************************)
(* Alarm engine and alarm store of the ESP32 alarm clock                   *)
(* (src/src/alarm_manager.cpp), with the durable key-value store it writes *)
(* through to and the ring callback registered by src/src/main.cpp.        *)
(*                                                                         *)
(* Arduino Strings are sequences of one-character strings, so that the     *)
(* persisted encoding (saveToNVS) and its parser (loadFromNVS) are         *)
(* computed character by character, as the code computes them.             *)
(*                                                                         *)
(* The audio coordinator (src/src/audio_test.cpp) is modelled statement    *)
(* group by statement group for three tasks, the main loop, the BLE        *)
(* callbacks and audioTask, which share its fields and its mutex.          *)
(***************************************************************************)
EXTENDS Integers, Sequences, FiniteSets, TLC

VARIABLES
    alarms,             \* _alarms: the in-memory ordered list of AlarmData
    prefs,              \* _prefs: the NVS namespace "alarms", key -> String
    alarmRinging,       \* _alarmRinging
    ringingAlarmId,     \* _ringingAlarmId (255 = none)
    lastCheckedMinute,  \* _lastCheckedMinute (255 = never)
    snoozed,            \* _snoozed
    snoozeHour,         \* _snoozeHour
    snoozeMinute,       \* _snoozeMinute
    cb,                 \* invocations of _alarmCallback made by the last operation
    ev,                 \* the last operation, its path through the code, the time it was given
    snoozedId,          \* history: the alarm that was ringing when snoozeAlarm took effect
    btn,                \* the Button object (button.cpp)
    now,                \* millis() as read by the last loop() iteration
    pendingSingleClickTime, \* loop(): static pendingSingleClickTime
    taps,               \* history of the button: press and release edges, what they led to
    volume,             \* AudioTest::_volume
    audioPrefs,         \* the "audio" namespace of the durable store: its "volume" key
    alarmStartVolume,   \* loop(): static alarmStartVolume
    wasRingingLastLoop, \* loop(): static wasRingingLastLoop
    volumeArg,          \* history: the argument of the last setVolume call (-1: none since begin)
    volumeChanged,      \* AudioTest::_volumeChanged
    au,                 \* the audio coordinator: AudioTest's playback state and the objects it owns
    tk,                 \* per task: where it is in the coordinator operation it runs
    pcmLoops,           \* history: the loop() calls that served the PCM buffer since playPCMBuffer
    snap                \* history: the coordinator as it was when the call under watch was made

engine == <<alarmRinging, ringingAlarmId, lastCheckedMinute,
            snoozed, snoozeHour, snoozeMinute>>
prog == <<alarms, prefs, engine>>
hist == <<snoozedId>>
buttonVars == <<btn, now, pendingSingleClickTime, taps>>
audioVars == <<volume, audioPrefs, alarmStartVolume, wasRingingLastLoop, volumeArg,
               volumeChanged>>
coordVars == <<au, tk, pcmLoops, snap>>
\* what the alarm manager's own operations never touch
periph == <<buttonVars, audioVars, coordVars>>
vars == <<alarms, prefs, alarmRinging, ringingAlarmId, lastCheckedMinute,
          snoozed, snoozeHour, snoozeMinute, cb, ev, snoozedId,
          btn, now, pendingSingleClickTime, taps, volume, audioPrefs,
          alarmStartVolume, wasRingingLastLoop, volumeArg, volumeChanged,
          au, tk, pcmLoops, snap>>

----------------------------------------------------------------------------
(* Program constants *)

MAX_ALARMS == 10
SNOOZE_MINUTES == 5
NO_ALARM == 255
NEVER_CHECKED == 255

(* Bounds of the model *)

NumIds == 2             \* callers use the alarm ids 0 .. NumIds-1
MaxLoops == 22          \* loop() iterations followed
MaxRingLoops == 12      \* loop() iterations followed while an alarm can ring
LOOP_MS == 100          \* time from one loop() iteration to the next

Ids == 0 .. (NumIds - 1)

----------------------------------------------------------------------------
(* Arduino String and integer helpers *)

Digits == <<"0", "1", "2", "3", "4", "5", "6", "7", "8", "9">>

IsDigit(c) == \E d \in 0..9 : Digits[d + 1] = c

DigitVal(c) == CHOOSE d \in 0..9 : Digits[d + 1] = c

\* String(unsigned char): the decimal digits, no padding
RECURSIVE StringOf(_)
StringOf(n) ==
    IF n < 10 THEN <<Digits[n + 1]>>
    ELSE Append(StringOf(n \div 10), Digits[(n % 10) + 1])

RECURSIVE ParseDigits(_, _, _)
ParseDigits(s, i, acc) ==
    IF i > Len(s) \/ ~IsDigit(s[i]) THEN acc
    ELSE ParseDigits(s, i + 1, acc * 10 + DigitVal(s[i]))

RECURSIVE SkipSpaces(_, _)
SkipSpaces(s, i) ==
    IF i <= Len(s) /\ s[i] = " " THEN SkipSpaces(s, i + 1) ELSE i

\* String::toInt() is atol(): leading blanks, an optional sign, then digits up
\* to the first other character; 0 when there is no digit
ToInt(s) ==
    LET i == SkipSpaces(s, 1) IN
    IF i <= Len(s) /\ s[i] = "-" THEN 0 - ParseDigits(s, i + 1, 0)
    ELSE IF i <= Len(s) /\ s[i] = "+" THEN ParseDigits(s, i + 1, 0)
    ELSE ParseDigits(s, i, 0)

\* conversion of a long to uint8_t
ToUInt8(n) == n % 256

SetMin(S) == CHOOSE x \in S : \A y \in S : x <= y

\* String::indexOf(char, fromIndex), 0-based, -1 when absent
IndexOf(s, ch, from) ==
    IF from >= Len(s) THEN -1
    ELSE LET hits == {i \in from .. (Len(s) - 1) : s[i + 1] = ch} IN
         IF hits = {} THEN -1 ELSE SetMin(hits)

\* String::substring(left, right), 0-based, right exclusive
Substring(s, left, right) ==
    LET lo == IF left > right THEN right ELSE left
        hi == IF left > right THEN left ELSE right
    IN  IF lo >= Len(s) THEN <<>>
        ELSE SubSeq(s, lo + 1, IF hi > Len(s) THEN Len(s) ELSE hi)

\* String::substring(left): to the end of the string
SubstringFrom(s, left) == Substring(s, left, Len(s))

Bit(b) == IF b THEN 1 ELSE 0

----------------------------------------------------------------------------
(* AlarmData *)

Tone1 == <<"t", "o", "n", "e", "1">>
DefaultLabel == <<"A", "l", "a", "r", "m">>

\* the AlarmData() constructor
DefaultAlarm ==
    [id |-> 0, hour |-> 0, minute |-> 0, daysOfWeek |-> 0, sound |-> Tone1,
     enabled |-> FALSE, label |-> DefaultLabel, snoozeEnabled |-> TRUE,
     permanentlyDisabled |-> FALSE, bottomRowLabel |-> <<>>]

\* an AlarmData as the BLE alarm-set path fills it before it calls setAlarm
Alarm(id, hour, minute, daysOfWeek, enabled, permanentlyDisabled) ==
    [DefaultAlarm EXCEPT !.id = id, !.hour = hour, !.minute = minute,
                         !.daysOfWeek = daysOfWeek, !.enabled = enabled,
                         !.permanentlyDisabled = permanentlyDisabled]

----------------------------------------------------------------------------
(* The durable store (Preferences) *)

EmptyPrefs == [k \in {} |-> <<>>]

IsKey(p, k) == k \in DOMAIN p

\* Preferences::getString(key, "")
GetString(p, k) == IF k \in DOMAIN p THEN p[k] ELSE <<>>

PutString(p, k, v) == [x \in (DOMAIN p) \cup {k} |-> IF x = k THEN v ELSE p[x]]

Remove(p, k) == [x \in (DOMAIN p) \ {k} |-> p[x]]

getAlarmKey(id) == <<"a", "l", "a", "r", "m", "_">> \o StringOf(id)

\* the value saveToNVS writes for one alarm
EncodeAlarm(a) ==
    StringOf(a.hour) \o <<",">> \o
    StringOf(a.minute) \o <<",">> \o
    StringOf(a.daysOfWeek) \o <<",">> \o
    StringOf(Bit(a.enabled)) \o <<",">> \o
    a.sound \o <<",">> \o
    a.label \o <<",">> \o
    StringOf(Bit(a.snoozeEnabled)) \o <<",">> \o
    StringOf(Bit(a.permanentlyDisabled)) \o <<",">> \o
    a.bottomRowLabel

RECURSIVE SaveFrom(_, _, _)
SaveFrom(al, i, p) ==
    IF i > Len(al) THEN p
    ELSE SaveFrom(al, i + 1, PutString(p, getAlarmKey(al[i].id), EncodeAlarm(al[i])))

saveToNVS(al, p) == SaveFrom(al, 1, p)

\* the eight comma positions loadFromNVS computes
CommaIdx(data) ==
    LET idx1 == IndexOf(data, ",", 0)
        idx2 == IndexOf(data, ",", idx1 + 1)
        idx3 == IndexOf(data, ",", idx2 + 1)
        idx4 == IndexOf(data, ",", idx3 + 1)
        idx5 == IndexOf(data, ",", idx4 + 1)
        idx6 == IndexOf(data, ",", idx5 + 1)
        idx7 == IndexOf(data, ",", idx6 + 1)
        idx8 == IndexOf(data, ",", idx7 + 1)
    IN  <<idx1, idx2, idx3, idx4, idx5, idx6, idx7, idx8>>

\* whether loadFromNVS keeps the record stored as data
Parses(data) ==
    LET x == CommaIdx(data) IN
    Len(data) > 0 /\ x[1] > 0 /\ x[2] > 0 /\ x[3] > 0 /\ x[4] > 0

\* the AlarmData loadFromNVS builds from the value stored for id
DecodeAlarm(id, data) ==
    LET x == CommaIdx(data)
        base == [DefaultAlarm EXCEPT
                    !.id = id,
                    !.hour = ToUInt8(ToInt(Substring(data, 0, x[1]))),
                    !.minute = ToUInt8(ToInt(Substring(data, x[1] + 1, x[2]))),
                    !.daysOfWeek = ToUInt8(ToInt(Substring(data, x[2] + 1, x[3]))),
                    !.enabled = (ToInt(Substring(data, x[3] + 1, x[4])) = 1)]
    IN  IF x[5] > 0 /\ x[6] > 0 /\ x[7] > 0 /\ x[8] > 0 THEN
            [base EXCEPT
                !.sound = Substring(data, x[4] + 1, x[5]),
                !.label = Substring(data, x[5] + 1, x[6]),
                !.snoozeEnabled = (ToInt(Substring(data, x[6] + 1, x[7])) = 1),
                !.permanentlyDisabled = (ToInt(Substring(data, x[7] + 1, x[8])) = 1),
                !.bottomRowLabel = SubstringFrom(data, x[8] + 1)]
        ELSE IF x[5] > 0 /\ x[6] > 0 /\ x[7] > 0 THEN
            [base EXCEPT
                !.sound = Substring(data, x[4] + 1, x[5]),
                !.label = Substring(data, x[5] + 1, x[6]),
                !.snoozeEnabled = (ToInt(Substring(data, x[6] + 1, x[7])) = 1),
                !.permanentlyDisabled = (ToInt(SubstringFrom(data, x[7] + 1)) = 1),
                !.bottomRowLabel = <<>>]
        ELSE IF x[5] > 0 /\ x[6] > 0 THEN
            [base EXCEPT
                !.sound = Substring(data, x[4] + 1, x[5]),
                !.label = Substring(data, x[5] + 1, x[6]),
                !.snoozeEnabled = (ToInt(SubstringFrom(data, x[6] + 1)) = 1),
                !.permanentlyDisabled = FALSE,
                !.bottomRowLabel = <<>>]
        ELSE
            [base EXCEPT
                !.sound = SubstringFrom(data, x[4] + 1),
                !.label = DefaultLabel,
                !.snoozeEnabled = TRUE,
                !.permanentlyDisabled = FALSE,
                !.bottomRowLabel = <<>>]

RECURSIVE LoadFrom(_, _, _)
LoadFrom(id, p, acc) ==
    IF id >= MAX_ALARMS THEN acc
    ELSE LET key == getAlarmKey(id)
             data == GetString(p, key)
         IN  IF IsKey(p, key) /\ Parses(data)
             THEN LoadFrom(id + 1, p, Append(acc, DecodeAlarm(id, data)))
             ELSE LoadFrom(id + 1, p, acc)

\* the list loadFromNVS leaves in _alarms
loadFromNVS(p) == LoadFrom(0, p, <<>>)

----------------------------------------------------------------------------
(* The alarm store *)

\* position of the first record with this id, 0 when there is none
FindId(al, id) ==
    LET hits == {i \in 1..Len(al) : al[i].id = id} IN
    IF hits = {} THEN 0 ELSE SetMin(hits)

\* what getAlarm(id, out) copies out; NoAlarm when it returns false
NoAlarm == [id |-> NO_ALARM]
getAlarm(al, id) == IF FindId(al, id) = 0 THEN NoAlarm ELSE al[FindId(al, id)]

\* faulty variant: the record is appended even when its id is stored
Upsert_AlwaysAppend(al, a) == Append(al, a)

\* the list after setAlarm's find-or-append loop
Upsert(al, a) ==
    IF FindId(al, a.id) = 0 THEN Append(al, a)
    ELSE [al EXCEPT ![FindId(al, a.id)] = a]

RemoveAt(al, i) == SubSeq(al, 1, i - 1) \o SubSeq(al, i + 1, Len(al))

----------------------------------------------------------------------------
(* The ring callback: what it is passed, and what it can see when it starts *)

Callback(via, id, al, p) ==
    [via |-> via, id |-> id, seen |-> getAlarm(al, id),
     stored |-> GetString(p, getAlarmKey(id))]

----------------------------------------------------------------------------
(* The ring callback registered in setup(): the audio it starts *)

Tone2 == <<"t", "o", "n", "e", "2">>
Tone3 == <<"t", "o", "n", "e", "3">>

\* String::toLowerCase, over the capital letters the file names here use
UpperLetters == <<"A", "M", "P", "V", "W">>
LowerLetters == <<"a", "m", "p", "v", "w">>
LowerOf(c) ==
    IF \E k \in 1..Len(UpperLetters) : UpperLetters[k] = c
    THEN LowerLetters[CHOOSE k \in 1..Len(UpperLetters) : UpperLetters[k] = c]
    ELSE c
ToLowerCase(s) == [k \in 1..Len(s) |-> LowerOf(s[k])]

EndsWith(s, suffix) ==
    /\ Len(s) >= Len(suffix)
    /\ SubSeq(s, Len(s) - Len(suffix) + 1, Len(s)) = suffix

\* String::indexOf(substring) >= 0
Contains(s, sub) ==
    \E k \in 1..(Len(s) - Len(sub) + 1) : SubSeq(s, k, k + Len(sub) - 1) = sub

Mp3 == <<".", "m", "p", "3">>
Wav == <<".", "w", "a", "v">>
M4a == <<".", "m", "4", "a">>

\* names the file upload accepts into the alarm sounds directory
isValidFilename(filename) ==
    /\ Len(filename) # 0
    /\ ~Contains(filename, <<".", ".">>)
    /\ ~Contains(filename, <<"/">>)
    /\ ~Contains(filename, <<"\\">>)
    /\ \/ EndsWith(ToLowerCase(filename), Mp3)
       \/ EndsWith(ToLowerCase(filename), Wav)
       \/ EndsWith(ToLowerCase(filename), M4a)
    /\ Len(filename) <= 23

\* whether playFile starts playback of an existing file: by its extension,
\* and decoderOk says whether the decoder's begin() succeeds
playFile(sound, exists, decoderOk) ==
    /\ exists
    /\ EndsWith(ToLowerCase(sound), Mp3) \/ EndsWith(ToLowerCase(sound), Wav)
    /\ decoderOk

\* what the callback starts for the record it finds under the id it is given
\* (seen = NoAlarm when getAlarm fails); exists is fileExists of the sound
RingAudio(seen, exists, decoderOk) ==
    IF seen = NoAlarm THEN "none"
    ELSE IF seen.sound \in {Tone1, Tone2, Tone3} THEN "tone"
    ELSE IF exists
         THEN IF playFile(seen.sound, exists, decoderOk) THEN "file" ELSE "none"
         ELSE "fallback"

----------------------------------------------------------------------------
(* The push button (button.cpp) and the volume (audio_test.cpp) *)

DEBOUNCE_MS == 1
DOUBLE_CLICK_MS == 700
DEFAULT_VOLUME == 70
MAX_VOLUME == 100

\* Button::Button, then begin() with the button up
ButtonConstructed ==
    [currentState |-> FALSE, lastState |-> FALSE, lastRawState |-> FALSE,
     lastDebounceTime |-> 0, pressedFlag |-> FALSE, releasedFlag |-> FALSE,
     lastClickTime |-> 0, clickCount |-> 0, doubleClickFlag |-> FALSE]

\* no edge seen yet
NoTaps ==
    [lastPress |-> 0,       \* time of the last press edge
     pairPress |-> 0,       \* the press edge that the last release edge ended
     lastRelease |-> 0,     \* time of the last release edge
     open |-> FALSE,        \* the last release is the first of a pair not yet complete
     dbl |-> FALSE,         \* the last loop() found the double-click flag set
     snoozedFor |-> 0,      \* the press edge whose pending click last led to snoozeAlarm
     pressRinging |-> FALSE, \* the alarm was ringing at the last press edge
     rawSince |-> 0,        \* the update() since which the pin has read as it reads now
     glitches |-> 0,        \* readings that differed from the one before and from the one after
     doubled |-> {}]        \* the press edges of the pair last reported as a double-click

\* faulty variant: the counter is not reset when the flag is set
Clicked_NoReset(clickCount, doubleClickFlag, inWindow) ==
    IF inWindow
    THEN IF clickCount + 1 >= 2 THEN <<clickCount + 1, TRUE>>
         ELSE <<clickCount + 1, doubleClickFlag>>
    ELSE <<1, doubleClickFlag>>

\* the click bookkeeping of a release edge: <<_clickCount, _doubleClickFlag>>
Clicked(clickCount, doubleClickFlag, inWindow) ==
    IF inWindow
    THEN IF clickCount + 1 >= 2 THEN <<0, TRUE>> ELSE <<clickCount + 1, doubleClickFlag>>
    ELSE <<1, doubleClickFlag>>

\* variant of Update: a changed reading is committed by the update() that sees it
Update_NoDebounce(b, rawState, currentTime) ==
    LET b1 == IF rawState # b.lastRawState
              THEN [b EXCEPT !.lastDebounceTime = currentTime, !.lastRawState = rawState]
              ELSE b
        clicks == Clicked(b1.clickCount, b1.doubleClickFlag,
                          currentTime - b1.lastClickTime < DOUBLE_CLICK_MS)
    IN  IF rawState = b1.currentState THEN b1
        ELSE IF rawState
        THEN [b1 EXCEPT !.currentState = rawState, !.lastState = rawState,
                        !.pressedFlag = TRUE]
        ELSE [b1 EXCEPT !.currentState = rawState, !.lastState = rawState,
                        !.releasedFlag = TRUE,
                        !.clickCount = clicks[1],
                        !.doubleClickFlag = clicks[2],
                        !.lastClickTime = currentTime]

\* Button::update with the raw reading rawState at currentTime
Update(b, rawState, currentTime) ==
    LET b1 == IF rawState # b.lastRawState
              THEN [b EXCEPT !.lastDebounceTime = currentTime, !.lastRawState = rawState]
              ELSE b
        stable == (currentTime - b1.lastDebounceTime) > DEBOUNCE_MS
        rising == rawState /\ ~b1.lastState
        falling == ~rawState /\ b1.lastState
        clicks == Clicked(b1.clickCount, b1.doubleClickFlag,
                          currentTime - b1.lastClickTime < DOUBLE_CLICK_MS)
    IN  IF ~(stable /\ rawState # b1.currentState) THEN b1
        ELSE IF rising
        THEN [b1 EXCEPT !.currentState = rawState, !.lastState = rawState,
                        !.pressedFlag = TRUE]
        ELSE IF falling
        THEN [b1 EXCEPT !.currentState = rawState, !.lastState = rawState,
                        !.releasedFlag = TRUE,
                        !.clickCount = clicks[1],
                        !.doubleClickFlag = clicks[2],
                        !.lastClickTime = currentTime]
        ELSE [b1 EXCEPT !.currentState = rawState, !.lastState = rawState]

\* Button::wasPressed: the object it leaves (it returns b.pressedFlag)
wasPressed(b) == [b EXCEPT !.pressedFlag = FALSE]

\* Button::wasDoubleClicked: the object it leaves (it returns b.doubleClickFlag)
wasDoubleClicked(b, currentTime) ==
    [b EXCEPT !.clickCount = IF currentTime - b.lastClickTime > DOUBLE_CLICK_MS
                             THEN 0 ELSE b.clickCount,
              !.doubleClickFlag = FALSE]

\* history of the edges Update found between b and b1 at time t; the pairing
\* is kept in the words of the double-click rule, not with _clickCount
EdgesAfter(tp, b, b1, t) ==
    IF b1.currentState /\ ~b.currentState
    THEN [tp EXCEPT !.lastPress = t, !.dbl = b1.doubleClickFlag,
                    !.pressRinging = alarmRinging]
    ELSE IF ~b1.currentState /\ b.currentState
    THEN LET second == tp.open /\ t - tp.lastRelease < 700 IN
         [tp EXCEPT !.lastRelease = t,
                    !.open = ~second,
                    !.pairPress = tp.lastPress,
                    !.dbl = b1.doubleClickFlag,
                    !.doubled = IF b1.doubleClickFlag
                                THEN {tp.pairPress, tp.lastPress} ELSE tp.doubled]
    ELSE [tp EXCEPT !.dbl = b1.doubleClickFlag]

\* the same, with the history of the raw readings; a reading that lasted for
\* one update() only is counted as a glitch (up to 1)
TapsAfter(tp, b, b1, t) ==
    LET changed == b1.lastRawState # b.lastRawState IN
    [EdgesAfter(tp, b, b1, t) EXCEPT
        !.rawSince = IF changed THEN t ELSE tp.rawSince,
        !.glitches = IF changed /\ tp.rawSince = now
                        /\ b.lastRawState # b.currentState
                     THEN 1 ELSE tp.glitches]

\* variant of ClampVolume: the value is taken as it is given
ClampVolume_None(v) == v

\* AudioTest::setVolume: what it makes of its uint8_t argument
ClampVolume(v) == IF v > MAX_VOLUME THEN MAX_VOLUME ELSE v

\* Preferences::getUChar("volume", 70) in AudioTest::begin
LoadVolume(ap) == IF ap = <<>> THEN DEFAULT_VOLUME ELSE ap[1]

----------------------------------------------------------------------------
(* The audio coordinator (audio_test.cpp)                                  *)
(*                                                                         *)
(* Three tasks use it: loop() of main.cpp ("main"), the BLE write          *)
(* callbacks ("ble") and audioTask ("audio"), which calls AudioTest::loop  *)
(* every millisecond. A task is at a place (pc) of the operation it runs;  *)
(* one step is what the task does from one mutex operation, or from one   *)
(* unguarded access to the shared state, up to the next.                  *)

Tasks == {"main", "ble", "audio"}
Callers == {"main", "ble"}

CHUNK_SIZE == 512

\* the objects after the constructors and AudioTest::begin()
AudioConstructed ==
    [currentSoundType |-> "NONE",   \* _currentSoundType
     i2sInstalled |-> TRUE,         \* the tone driver (i2s_driver_install) on I2S_PORT
     audioOut |-> FALSE,            \* audioOut != nullptr
     gain |-> 0,                    \* the gain of audioOut, in percent
     audioFile |-> FALSE,           \* audioFile != nullptr
     mp3 |-> "null",                \* mp3: "null", or its decoder "running" / "stopped"
     wav |-> "null",                \* wav: the same
     loopFile |-> FALSE,            \* _loopFile
     currentFilePath |-> <<>>,      \* _currentFilePath
     pcmSizeBytes |-> 0,            \* _pcmSizeBytes
     pcmPosition |-> 0,             \* _pcmPosition
     pcmPlaying |-> FALSE,          \* _pcmPlaying
     pcmBits |-> 16,                \* _pcmBits
     pcmChannels |-> 2,             \* _pcmChannels
     overrun |-> FALSE,             \* a loop() call has written beyond a local array
     audioMutex |-> "free"]         \* _audioMutex: "free" or the task that holds it

\* what the last playFile or stopFile call of a task reported
NoCall == [op |-> "none", result |-> "none", cause |-> "none"]

\* a task that runs no operation of the coordinator
TaskIdle ==
    [pc |-> "idle", op |-> "none", path |-> <<>>, loop |-> FALSE, size |-> 0,
     bits |-> 16, channels |-> 2,
     v |-> 0, ret |-> "none", sf |-> "none", last |-> NoCall]

\* a call starts
Enter(op, pc) == [TaskIdle EXCEPT !.pc = pc, !.op = op]

\* a call returns
Finish(tr, result, cause) ==
    IF tr.op \in {"playFile", "stopFile"}
    THEN [TaskIdle EXCEPT !.last = [op |-> tr.op, result |-> result, cause |-> cause]]
    ELSE TaskIdle

\* the files in SPIFFS
SpiffsFiles == {<<"a", ".", "m", "p", "3">>, <<"A", ".", "W", "A", "V">>,
                <<"a", ".", "m", "4", "a">>}
\* the paths playFile is called with
CoordPaths == SpiffsFiles \cup {<<"g", "o", "n", "e", ".", "m", "p", "3">>}

Exists(path) == path \in SpiffsFiles

DecoderRunning(a) == a.mp3 = "running" \/ a.wav = "running"

IsMp3(path) == EndsWith(ToLowerCase(path), Mp3)
IsWav(path) == EndsWith(ToLowerCase(path), Wav)

\* the variables of the volume, which only setVolume and loop() write
volumeVars == <<volume, volumeChanged, audioPrefs, volumeArg>>

\* xSemaphoreTake(_audioMutex, ...) when the mutex is free
Take(t, pc) ==
    /\ au.audioMutex = "free"
    /\ au' = [au EXCEPT !.audioMutex = t]
    /\ tk' = [tk EXCEPT ![t].pc = pc]

\* where a stopFile() call goes back to: into the operation that called it,
\* or, stopFile() being its last statement, out of it
Back(tr, how) ==
    IF tr.ret = "top" \/ tr.ret = "lp_end" THEN Finish(tr, "void", how)
    ELSE IF tr.ret = "ip_end" THEN Finish(tr, "false", how)
    ELSE [tr EXCEPT !.pc = tr.ret, !.sf = how]

\* stopFile() is called from pc with the place to go back to
CallStopFile(tr, ret) == [tr EXCEPT !.pc = "sf_take", !.ret = ret]

\* variant of TornDown: the file output stays and the tone driver is not
\* installed again
TornDown_KeepsOutput(a) ==
    [a EXCEPT !.mp3 = "null", !.wav = "null", !.audioFile = FALSE]

\* stopFile(), lines 384-434: generators, file source and audioOut deleted,
\* the tone driver installed again
TornDown(a) ==
    [a EXCEPT !.mp3 = "null", !.wav = "null", !.audioFile = FALSE,
              !.audioOut = FALSE, !.gain = 0, !.i2sInstalled = TRUE]

\* AudioTest::stopFile
StopFile(t) ==
    LET tr == tk[t] IN
    /\ UNCHANGED <<volumeVars, pcmLoops>>
    /\ \/ tr.pc = "sf_take" /\ Take(t, "sf_body")
       \/ /\ tr.pc = "sf_body"
          /\ IF au.currentSoundType = "FILE"
             THEN /\ au' = TornDown(au)
                  /\ tk' = [tk EXCEPT ![t].pc = "sf_done"]
             ELSE /\ au' = [au EXCEPT !.audioMutex = "free"]
                  /\ tk' = [tk EXCEPT ![t] = Back(tr, "nothing")]
       \/ /\ tr.pc = "sf_done"
          /\ au' = [au EXCEPT !.currentSoundType = "NONE", !.loopFile = FALSE,
                              !.currentFilePath = <<>>, !.audioMutex = "free"]
          /\ tk' = [tk EXCEPT ![t] = Back(tr, "stopped")]

\* stopFile(): the mutex was not free for 1000 ms
StopFileTimeout(t) ==
    /\ tk[t].pc = "sf_take"
    /\ au.audioMutex # "free"
    /\ tk' = [tk EXCEPT ![t] = Back(tk[t], "timeout")]
    /\ UNCHANGED <<au, volumeVars, pcmLoops>>

\* variant of BeforeStopFile: the mutex is kept over the stopFile() call
BeforeStopFile_Held(a) == a

\* playFile() and loop(): xSemaphoreGive before the nested stopFile()
BeforeStopFile(a) == [a EXCEPT !.audioMutex = "free"]

\* playFile(), lines 306-365, once audioOut exists: the file is looked up,
\* opened, and its decoder begun. decoderOk: whether begin() succeeds.
Opened(a, path, loop, decoderOk) ==
    IF ~Exists(path) THEN [au |-> a, result |-> "false", cause |-> "missing"]
    ELSE LET b == [a EXCEPT !.currentFilePath = path] IN
         IF IsMp3(path) THEN
            IF decoderOk
            THEN [au |-> [b EXCEPT !.audioFile = TRUE, !.mp3 = "running",
                                   !.loopFile = loop, !.currentSoundType = "FILE"],
                  result |-> "true", cause |-> "started"]
            ELSE [au |-> [b EXCEPT !.audioFile = FALSE, !.mp3 = "null"],
                  result |-> "false", cause |-> "decoder"]
         ELSE IF IsWav(path) THEN
            IF decoderOk
            THEN [au |-> [b EXCEPT !.audioFile = TRUE, !.wav = "running",
                                   !.loopFile = loop, !.currentSoundType = "FILE"],
                  result |-> "true", cause |-> "started"]
            ELSE [au |-> [b EXCEPT !.audioFile = FALSE, !.wav = "null"],
                  result |-> "false", cause |-> "decoder"]
         ELSE [au |-> [b EXCEPT !.audioFile = FALSE],
               result |-> "false", cause |-> "format"]

\* AudioTest::playFile
PlayFile(t) ==
    LET tr == tk[t] IN
    /\ UNCHANGED <<volumeVars, pcmLoops>>
    /\ \/ tr.pc = "pf_take" /\ Take(t, "pf_check")
       \/ /\ tr.pc = "pf_check"
          /\ IF au.currentSoundType = "FILE"
             THEN /\ au' = BeforeStopFile(au)
                  /\ tk' = [tk EXCEPT ![t] = CallStopFile(tr, "pf_retake")]
             ELSE /\ tk' = [tk EXCEPT ![t].pc = "pf_out"]
                  /\ UNCHANGED au
       \/ tr.pc = "pf_retake" /\ Take(t, "pf_out")
       \/ /\ tr.pc = "pf_out"
          /\ au' = IF au.audioOut THEN au
                   ELSE [au EXCEPT !.i2sInstalled = FALSE, !.audioOut = TRUE,
                                   !.gain = volume]
          /\ tk' = [tk EXCEPT ![t].pc = "pf_open"]
       \/ /\ tr.pc = "pf_open"
          /\ \E decoderOk \in BOOLEAN :
               LET o == Opened(au, tr.path, tr.loop, decoderOk) IN
               /\ au' = [o.au EXCEPT !.audioMutex = "free"]
               /\ tk' = [tk EXCEPT ![t] = Finish(tr, o.result, o.cause)]

\* playFile(): the mutex was not free for 1000 ms, at the first take or at
\* the take after the nested stopFile()
PlayFileTimeout(t) ==
    /\ tk[t].pc \in {"pf_take", "pf_retake"}
    /\ au.audioMutex # "free"
    /\ tk' = [tk EXCEPT ![t] = Finish(tk[t], "false",
                 IF tk[t].pc = "pf_take" THEN "timeout" ELSE "retimeout")]
    /\ UNCHANGED <<au, volumeVars, pcmLoops>>

\* AudioTest::playTone
PlayTone(t) ==
    LET tr == tk[t] IN
    /\ UNCHANGED <<volumeVars, pcmLoops>>
    /\ \/ /\ tr.pc = "pt_check"
          /\ tk' = [tk EXCEPT ![t] = IF au.currentSoundType = "FILE"
                                     THEN CallStopFile(tr, "pt_start")
                                     ELSE [tr EXCEPT !.pc = "pt_start"]]
          /\ UNCHANGED au
       \/ /\ tr.pc = "pt_start"
          /\ au' = [au EXCEPT !.currentSoundType = "TONE"]
          /\ tk' = [tk EXCEPT ![t].pc = "pt_write"]
       \/ /\ tr.pc = "pt_write"     \* i2s_write of the samples
          /\ tk' = [tk EXCEPT ![t].pc = "pt_end"]
          /\ UNCHANGED au
       \/ /\ tr.pc = "pt_end"
          /\ au' = [au EXCEPT !.currentSoundType = "NONE"]
          /\ tk' = [tk EXCEPT ![t] = Finish(tr, "void", "played")]

\* AudioTest::stop
Stop(t) ==
    LET tr == tk[t] IN
    /\ UNCHANGED <<volumeVars, pcmLoops>>
    /\ \/ /\ tr.pc = "st_begin"
          /\ au' = IF au.currentSoundType = "PCM"
                   THEN [au EXCEPT !.pcmPlaying = FALSE] ELSE au
          /\ tk' = [tk EXCEPT ![t] = CallStopFile(tr, "st_end")]
       \/ /\ tr.pc = "st_end"
          /\ au' = [au EXCEPT !.currentSoundType = "NONE"]
          /\ tk' = [tk EXCEPT ![t] = Finish(tr, "void", "stopped")]

\* AudioTest::playPCMBuffer
PlayPCMBuffer(t) ==
    LET tr == tk[t] IN
    /\ UNCHANGED volumeVars
    /\ \/ /\ tr.pc = "pp_check"
          /\ tk' = [tk EXCEPT ![t] = IF tr.bits \notin {8, 16} \/ tr.channels \notin {1, 2}
                                     THEN Finish(tr, "false", "format")
                                     ELSE IF au.currentSoundType = "FILE"
                                     THEN CallStopFile(tr, "pp_set")
                                     ELSE [tr EXCEPT !.pc = "pp_set"]]
          /\ UNCHANGED <<au, pcmLoops>>
       \/ /\ tr.pc = "pp_set"
          /\ au' = [au EXCEPT !.pcmSizeBytes = tr.size, !.pcmPosition = 0,
                              !.pcmBits = tr.bits, !.pcmChannels = tr.channels,
                              !.pcmPlaying = TRUE, !.currentSoundType = "PCM"]
          /\ pcmLoops' = 0
          /\ tk' = [tk EXCEPT ![t] = Finish(tr, "true", "started")]

\* AudioTest::isPlaying
IsPlaying(t) ==
    LET tr == tk[t] IN
    /\ tr.pc = "ip_check"
    /\ UNCHANGED <<au, volumeVars, pcmLoops>>
    /\ tk' = [tk EXCEPT ![t] =
                IF au.currentSoundType = "FILE"
                THEN IF DecoderRunning(au) THEN Finish(tr, "true", "running")
                     ELSE IF au.loopFile /\ au.audioFile
                     THEN Finish(tr, "true", "seek")
                     ELSE CallStopFile(tr, "ip_end")
                ELSE Finish(tr, IF au.currentSoundType # "NONE" THEN "true" ELSE "false",
                            "type")]

\* AudioTest::setVolume, statement by statement: it takes no mutex
SetVolumeSteps(t) ==
    LET tr == tk[t] IN
    /\ UNCHANGED <<au, pcmLoops>>
    /\ \/ /\ tr.pc = "sv_write"
          /\ volume' = ClampVolume(tr.v)
          /\ volumeArg' = tr.v
          /\ tk' = [tk EXCEPT ![t].pc = "sv_flag"]
          /\ UNCHANGED <<volumeChanged, audioPrefs>>
       \/ /\ tr.pc = "sv_flag"
          /\ volumeChanged' = TRUE
          /\ tk' = [tk EXCEPT ![t].pc = "sv_save"]
          /\ UNCHANGED <<volume, volumeArg, audioPrefs>>
       \/ /\ tr.pc = "sv_save"
          /\ audioPrefs' = <<volume>>
          /\ tk' = [tk EXCEPT ![t] = Finish(tr, "void", "saved")]
          /\ UNCHANGED <<volume, volumeArg, volumeChanged>>

Min(x, y) == IF x < y THEN x ELSE y

\* loop(), lines 568-571: the length of the chunk this call takes
BytesToWrite(a) == Min(a.pcmSizeBytes - a.pcmPosition, CHUNK_SIZE)

\* loop(), lines 575-616: how many bytes from the cursor on the chunk reads.
\* 16-bit mono reads whole samples, ((int16_t*)dataPtr)[i] for i < sampleCount.
ReadBytes(a) ==
    IF a.pcmBits = 16 /\ a.pcmChannels = 1 THEN (BytesToWrite(a) \div 2) * 2
    ELSE BytesToWrite(a)

\* loop(), lines 582 and 596: the elements of the local array the chunk is
\* converted into, stereoBuffer for 16-bit mono and buffer16 for 8-bit;
\* 16-bit stereo is written from the borrowed buffer itself
ConvCapacity(a) ==
    IF a.pcmBits = 16 /\ a.pcmChannels = 2 THEN 0
    ELSE IF a.pcmBits = 16 THEN CHUNK_SIZE \div 2
    ELSE CHUNK_SIZE

\* loop(), lines 585-589, 601-603 and 608-612: the conversion loops write the
\* elements 0 .. ConvSlots - 1 of the local array: two per 16-bit mono sample,
\* one per byte of 8-bit stereo, two per byte of 8-bit mono
ConvSlots(a) ==
    IF a.pcmBits = 16 /\ a.pcmChannels = 2 THEN 0
    ELSE IF a.pcmBits = 16 THEN (BytesToWrite(a) \div 2) * 2
    ELSE IF a.pcmChannels = 2 THEN BytesToWrite(a)
    ELSE BytesToWrite(a) * 2

\* loop(), lines 566-625: one chunk goes to i2s_write, which takes all of it
\* when the driver is installed and nothing when it is not. The cursor moves
\* by what i2s_write took for 16-bit stereo and by the chunk for the converted
\* formats; a call that finds nothing left ends the playback. A conversion
\* that writes beyond its local array is undefined behaviour: the call is
\* followed as written and marked, and nothing is modelled after it.
Chunked(a) ==
    LET bytesRemaining == a.pcmSizeBytes - a.pcmPosition
        bytesWritten == IF a.i2sInstalled THEN BytesToWrite(a) ELSE 0
        moved == IF a.pcmBits = 16 /\ a.pcmChannels = 2 THEN bytesWritten
                 ELSE BytesToWrite(a)
    IN  IF bytesRemaining > 0
        THEN [a EXCEPT !.pcmPosition = a.pcmPosition + moved,
                       !.overrun = ConvSlots(a) > ConvCapacity(a)]
        ELSE [a EXCEPT !.pcmPlaying = FALSE, !.currentSoundType = "NONE"]

\* loop(), lines 659-675 and 691-707: the generator gen of a looping file that
\* ended is deleted; with a file source still there, the file is opened again
\* and a new generator begun, its result not looked at
Restarted(a, gen, decoderOk) ==
    LET again == IF decoderOk THEN "running" ELSE "stopped" IN
    IF gen = "mp3"
    THEN [a EXCEPT !.mp3 = IF a.audioFile THEN again ELSE "null"]
    ELSE [a EXCEPT !.wav = IF a.audioFile THEN again ELSE "null"]

\* loop(), lines 647-682 (mp3) or 685-714 (wav): the running generator decodes
\* one step; eof: its loop() returned false, the file is at its end
DecodedOne(r, gen, eof, decoderOk) ==
    LET a == r.au
        running == IF gen = "mp3" THEN a.mp3 = "running" ELSE a.wav = "running"
    IN  IF ~running \/ ~eof THEN r
        ELSE IF a.loopFile
        THEN [r EXCEPT !.au = Restarted(a, gen, decoderOk)]
        ELSE [au |-> IF gen = "mp3" THEN [a EXCEPT !.mp3 = "stopped"]
                                    ELSE [a EXCEPT !.wav = "stopped"],
              needsStop |-> TRUE]

Decoded(a, eof, decoderOk) ==
    DecodedOne(DecodedOne([au |-> a, needsStop |-> FALSE], "mp3", eof, decoderOk),
               "wav", eof, decoderOk)

\* the PCM calls of loop() are counted from playPCMBuffer to the end of the
\* playback, up to this many
MaxPcmLoops == 5

\* AudioTest::loop, called by audioTask
LoopSteps(t) ==
    LET tr == tk[t] IN
    \/ /\ tr.pc = "lp_take"
       /\ Take(t, "lp_vol")
       /\ UNCHANGED <<volumeVars, pcmLoops>>
    \/ /\ tr.pc = "lp_vol"
       /\ tk' = [tk EXCEPT ![t].pc = IF volumeChanged /\ au.audioOut
                                     THEN "lp_gain" ELSE "lp_body"]
       /\ UNCHANGED <<au, volumeVars, pcmLoops>>
    \/ /\ tr.pc = "lp_gain"
       /\ au' = [au EXCEPT !.gain = volume]
       /\ tk' = [tk EXCEPT ![t].pc = "lp_clear"]
       /\ UNCHANGED <<volumeVars, pcmLoops>>
    \/ /\ tr.pc = "lp_clear"
       /\ volumeChanged' = FALSE
       /\ tk' = [tk EXCEPT ![t].pc = "lp_body"]
       /\ UNCHANGED <<au, volume, audioPrefs, volumeArg, pcmLoops>>
    \/ /\ tr.pc = "lp_body"
       /\ UNCHANGED volumeVars
       /\ IF au.currentSoundType = "PCM" /\ au.pcmPlaying
          THEN /\ au' = [Chunked(au) EXCEPT !.audioMutex = "free"]
               /\ pcmLoops' = IF Chunked(au).currentSoundType = "PCM"
                              THEN Min(pcmLoops + 1, MaxPcmLoops) ELSE 0
               /\ tk' = [tk EXCEPT ![t] = Finish(tr, "void", "pcm")]
          ELSE IF au.currentSoundType = "FILE"
          THEN \E eof \in BOOLEAN, decoderOk \in BOOLEAN :
                 LET d == Decoded(au, eof, decoderOk) IN
                 /\ au' = BeforeStopFile(d.au)
                 /\ tk' = [tk EXCEPT ![t] =
                             IF d.needsStop THEN CallStopFile(tr, "lp_end")
                             ELSE Finish(tr, "void", "file")]
                 /\ UNCHANGED pcmLoops
          ELSE /\ au' = [au EXCEPT !.audioMutex = "free"]
               /\ tk' = [tk EXCEPT ![t] = Finish(tr, "void", "idle")]
               /\ UNCHANGED pcmLoops

\* loop(): the mutex was not free for 10 ms, the iteration is skipped
LoopSkip(t) ==
    /\ tk[t].pc = "lp_take"
    /\ au.audioMutex # "free"
    /\ tk' = [tk EXCEPT ![t] = Finish(tk[t], "void", "skipped")]
    /\ UNCHANGED <<au, volumeVars, pcmLoops>>

\* a task calls an operation
CallPlayTone(t) ==
    /\ tk[t].pc = "idle"
    /\ tk' = [tk EXCEPT ![t] = Enter("playTone", "pt_check")]
    /\ UNCHANGED <<au, volumeVars, pcmLoops>>

CallStop(t) ==
    /\ tk[t].pc = "idle"
    /\ tk' = [tk EXCEPT ![t] = Enter("stop", "st_begin")]
    /\ UNCHANGED <<au, volumeVars, pcmLoops>>

CallStopFileOp(t) ==
    /\ tk[t].pc = "idle"
    /\ tk' = [tk EXCEPT ![t] = [Enter("stopFile", "sf_take") EXCEPT !.ret = "top"]]
    /\ UNCHANGED <<au, volumeVars, pcmLoops>>

CallPlayFile(t, path, loop) ==
    /\ tk[t].pc = "idle"
    /\ tk' = [tk EXCEPT ![t] = [Enter("playFile", "pf_take") EXCEPT
                                   !.path = path, !.loop = loop]]
    /\ UNCHANGED <<au, volumeVars, pcmLoops>>

\* playPCMBuffer(buffer, sizeBytes, sampleRate, bits, channels)
CallPlayPCMFormat(t, sizeBytes, bits, channels) ==
    /\ tk[t].pc = "idle"
    /\ sizeBytes # 0
    /\ tk' = [tk EXCEPT ![t] = [Enter("playPCMBuffer", "pp_check") EXCEPT
                                   !.size = sizeBytes, !.bits = bits,
                                   !.channels = channels]]
    /\ UNCHANGED <<au, volumeVars, pcmLoops>>

\* the same with the default arguments of audio_test.h: 16 bits, 2 channels
CallPlayPCMBuffer(t, sizeBytes) == CallPlayPCMFormat(t, sizeBytes, 16, 2)

CallIsPlaying(t) ==
    /\ tk[t].pc = "idle"
    /\ tk' = [tk EXCEPT ![t] = Enter("isPlaying", "ip_check")]
    /\ UNCHANGED <<au, volumeVars, pcmLoops>>

CallSetVolume(t, v) ==
    /\ tk[t].pc = "idle"
    /\ tk' = [tk EXCEPT ![t] = [Enter("setVolume", "sv_write") EXCEPT !.v = v]]
    /\ UNCHANGED <<au, volumeVars, pcmLoops>>

CallLoop(t) ==
    /\ tk[t].pc = "idle"
    /\ tk' = [tk EXCEPT ![t] = Enter("loop", "lp_take")]
    /\ UNCHANGED <<au, volumeVars, pcmLoops>>


----------------------------------------------------------------------------
(* The operations of the coordinator as loop() of main.cpp and the ring      *)
(* callback run them to their end, every wait for the mutex ending with it   *)

\* AudioTest::stopFile
StoppedFile(a) ==
    IF a.currentSoundType = "FILE"
    THEN [TornDown(a) EXCEPT !.currentSoundType = "NONE", !.loopFile = FALSE,
                             !.currentFilePath = <<>>]
    ELSE a

\* variant of Stopped: a file in playback is left to play
Stopped_NotFile(a) ==
    [a EXCEPT !.pcmPlaying = IF a.currentSoundType = "PCM" THEN FALSE ELSE a.pcmPlaying]

\* AudioTest::stop
Stopped(a) ==
    LET a1 == IF a.currentSoundType = "PCM" THEN [a EXCEPT !.pcmPlaying = FALSE] ELSE a
    IN  [StoppedFile(a1) EXCEPT !.currentSoundType = "NONE"]

\* AudioTest::playTone
TonePlayed(a) == [StoppedFile(a) EXCEPT !.currentSoundType = "NONE"]

\* AudioTest::playFile
FilePlayed(a, path, loop, decoderOk) ==
    LET a1 == StoppedFile(a)
        a2 == IF a1.audioOut THEN a1
              ELSE [a1 EXCEPT !.i2sInstalled = FALSE, !.audioOut = TRUE, !.gain = volume]
    IN  Opened(a2, path, loop, decoderOk).au

\* the audio of the ring callback (main.cpp, lines 330-365) for the record it
\* finds: a tone burst, the sound file played in a loop, or the fallback tone
CallbackAudio(a, seen, decoderOk) ==
    IF seen = NoAlarm THEN a
    ELSE IF seen.sound \in {Tone1, Tone2, Tone3} THEN TonePlayed(a)
    ELSE IF Exists(seen.sound) THEN FilePlayed(a, seen.sound, TRUE, decoderOk)
    ELSE TonePlayed(a)

----------------------------------------------------------------------------
\* the state after the constructors and setup(), before the first loop()
PeriphConstructed ==
    /\ btn = ButtonConstructed
    /\ now = 0
    /\ pendingSingleClickTime = 0
    /\ taps = NoTaps
    /\ volume = DEFAULT_VOLUME
    /\ audioPrefs = <<>>
    /\ alarmStartVolume = 0
    /\ wasRingingLastLoop = FALSE
    /\ volumeArg = -1
    /\ volumeChanged = FALSE
    /\ au = AudioConstructed
    /\ tk = [t \in Tasks |-> TaskIdle]
    /\ pcmLoops = 0
    /\ snap = AudioConstructed

----------------------------------------------------------------------------
(* The alarm engine *)

\* (daysOfWeek & dayBit) != 0 with uint8_t dayBit = 1 << dayOfWeek
DayBitSet(daysOfWeek, dayOfWeek) ==
    LET dayBit == ToUInt8(2 ^ dayOfWeek) IN
    dayBit # 0 /\ (daysOfWeek \div dayBit) % 2 = 1

\* faulty variant: the day bit is not looked at
shouldAlarmTrigger_AnyDay(a, hour, minute, dayOfWeek) ==
    a.hour = hour /\ a.minute = minute

shouldAlarmTrigger(a, hour, minute, dayOfWeek) ==
    IF a.hour # hour \/ a.minute # minute THEN FALSE
    ELSE IF a.daysOfWeek = 0 THEN TRUE
    ELSE DayBitSet(a.daysOfWeek, dayOfWeek)

\* whether the scan loop looks at the record at all
Eligible(a) == a.enabled /\ ~a.permanentlyDisabled

\* faulty variant: the last matching record wins
FirstTrigger_Last(al, hour, minute, dayOfWeek) ==
    LET hits == {i \in 1..Len(al) :
                    Eligible(al[i]) /\ shouldAlarmTrigger(al[i], hour, minute, dayOfWeek)}
    IN  IF hits = {} THEN 0 ELSE CHOOSE x \in hits : \A y \in hits : y <= x

\* position of the record the scan loop fires, 0 when it fires none
FirstTrigger(al, hour, minute, dayOfWeek) ==
    LET hits == {i \in 1..Len(al) :
                    Eligible(al[i]) /\ shouldAlarmTrigger(al[i], hour, minute, dayOfWeek)}
    IN  IF hits = {} THEN 0 ELSE SetMin(hits)

\* faulty variant: a fired one-shot record is left armed
AutoDisable_KeepArmed(al, i) == al

\* the list after the fired record's one-shot auto-disable
AutoDisable(al, i) ==
    IF al[i].daysOfWeek = 0
    THEN [al EXCEPT ![i].enabled = FALSE, ![i].permanentlyDisabled = TRUE]
    ELSE al

\* faulty variant: the fired record is not written before the callback
PersistFired_AfterCallback(al, i, p) == p

\* the store after it: saveToNVS() runs only for a one-shot record
PersistFired(al, i, p) ==
    IF al[i].daysOfWeek = 0 THEN saveToNVS(al, p) ELSE p

\* faulty variant: no dedup
AlreadyChecked_Never(hour, minute) == FALSE

\* the minute dedup at the head of checkAlarms
AlreadyChecked(hour, minute) == minute = lastCheckedMinute

\* faulty variant: the scan runs without the snooze test before it
SnoozeDue_Never(hour, minute) == FALSE

\* the snooze test of checkAlarms
SnoozeDue(hour, minute) == snoozed /\ hour = snoozeHour /\ minute = snoozeMinute

\* faulty variant: the hour is not wrapped at midnight
SnoozeTarget_NoMidnightWrap(nowHour, nowMinute) ==
    LET m == nowMinute + SNOOZE_MINUTES IN
    IF m >= 60 THEN <<nowHour + 1, m - 60>> ELSE <<nowHour, m>>

\* the target snoozeAlarm computes from the wall clock
SnoozeTarget(nowHour, nowMinute) ==
    LET m == nowMinute + SNOOZE_MINUTES IN
    IF m >= 60
    THEN <<IF nowHour + 1 >= 24 THEN 0 ELSE nowHour + 1, m - 60>>
    ELSE <<nowHour, m>>

\* hour and minute of an event that read no time
NO_TIME == NEVER_CHECKED
Ev(op, path, hour, minute) == [op |-> op, path |-> path, hour |-> hour, minute |-> minute]

\* the state the AlarmManager() constructor leaves
Constructed ==
    /\ alarmRinging = FALSE
    /\ ringingAlarmId = NO_ALARM
    /\ lastCheckedMinute = NEVER_CHECKED
    /\ snoozed = FALSE
    /\ snoozeHour = 0
    /\ snoozeMinute = 0

Init ==
    /\ alarms = <<>>
    /\ prefs = EmptyPrefs
    /\ Constructed
    /\ cb = <<>>
    /\ ev = Ev("construct", "begin", NO_TIME, NO_TIME)
    /\ snoozedId = NO_ALARM
    /\ PeriphConstructed

\* faulty variant: the id is not validated
SetAlarm_NoValidation(a) ==
    /\ alarms' = Upsert(alarms, a)
    /\ prefs' = saveToNVS(Upsert(alarms, a), prefs)
    /\ UNCHANGED engine
    /\ cb' = <<>>
    /\ ev' = Ev("setAlarm", "saved", NO_TIME, NO_TIME)
    /\ UNCHANGED snoozedId

SetAlarm(a) ==
    IF a.id >= MAX_ALARMS
    THEN /\ UNCHANGED <<prog, hist>>
         /\ cb' = <<>>
         /\ ev' = Ev("setAlarm", "invalid", NO_TIME, NO_TIME)
    ELSE /\ alarms' = Upsert(alarms, a)
         /\ prefs' = saveToNVS(Upsert(alarms, a), prefs)
         /\ UNCHANGED engine
         /\ cb' = <<>>
         /\ ev' = Ev("setAlarm", "saved", NO_TIME, NO_TIME)
         /\ UNCHANGED snoozedId

DeleteAlarm(id) ==
    IF FindId(alarms, id) = 0
    THEN /\ UNCHANGED <<prog, hist>>
         /\ cb' = <<>>
         /\ ev' = Ev("deleteAlarm", "notfound", NO_TIME, NO_TIME)
    ELSE /\ alarms' = RemoveAt(alarms, FindId(alarms, id))
         /\ prefs' = Remove(prefs, getAlarmKey(id))
         /\ UNCHANGED engine
         /\ cb' = <<>>
         /\ ev' = Ev("deleteAlarm", "deleted", NO_TIME, NO_TIME)
         /\ UNCHANGED snoozedId

CheckAlarms(hour, minute, dayOfWeek) ==
    IF AlreadyChecked(hour, minute)
    THEN /\ UNCHANGED <<prog, hist>>
         /\ cb' = <<>>
         /\ ev' = Ev("checkAlarms", "dedup", hour, minute)
    ELSE IF SnoozeDue(hour, minute)
    THEN /\ lastCheckedMinute' = minute
         /\ alarmRinging' = TRUE
         /\ snoozed' = FALSE
         /\ UNCHANGED <<alarms, prefs, ringingAlarmId, snoozeHour, snoozeMinute>>
         /\ cb' = <<Callback("snooze", ringingAlarmId, alarms, prefs)>>
         /\ ev' = Ev("checkAlarms", "snooze", hour, minute)
         /\ UNCHANGED hist
    ELSE LET i == FirstTrigger(alarms, hour, minute, dayOfWeek) IN
         IF i = 0
         THEN /\ lastCheckedMinute' = minute
              /\ UNCHANGED <<alarms, prefs, alarmRinging, ringingAlarmId,
                             snoozed, snoozeHour, snoozeMinute>>
              /\ cb' = <<>>
              /\ ev' = Ev("checkAlarms", "nomatch", hour, minute)
              /\ UNCHANGED hist
         ELSE LET al == AutoDisable(alarms, i)
                  p == PersistFired(al, i, prefs)
              IN  /\ lastCheckedMinute' = minute
                  /\ alarms' = al
                  /\ prefs' = p
                  /\ alarmRinging' = TRUE
                  /\ ringingAlarmId' = alarms[i].id
                  /\ UNCHANGED <<snoozed, snoozeHour, snoozeMinute>>
                  /\ cb' = <<Callback("scan", alarms[i].id, al, p)>>
                  /\ ev' = Ev("checkAlarms", "fire", hour, minute)
                  /\ UNCHANGED snoozedId

\* faulty variant: snoozing forgets which alarm rang
SnoozeAlarm_ClearsId(nowHour, nowMinute) ==
    IF ~alarmRinging
    THEN /\ UNCHANGED <<prog, hist>>
         /\ cb' = <<>>
         /\ ev' = Ev("snoozeAlarm", "notringing", NO_TIME, NO_TIME)
    ELSE /\ alarmRinging' = FALSE
         /\ snoozed' = TRUE
         /\ ringingAlarmId' = NO_ALARM
         /\ snoozeHour' = SnoozeTarget(nowHour, nowMinute)[1]
         /\ snoozeMinute' = SnoozeTarget(nowHour, nowMinute)[2]
         /\ UNCHANGED <<alarms, prefs, lastCheckedMinute>>
         /\ cb' = <<>>
         /\ ev' = Ev("snoozeAlarm", "snoozed", nowHour, nowMinute)
         /\ snoozedId' = ringingAlarmId

\* nowHour:nowMinute is what time()/localtime_r() return, read only when ringing
SnoozeAlarm(nowHour, nowMinute) ==
    IF ~alarmRinging
    THEN /\ UNCHANGED <<prog, hist>>
         /\ cb' = <<>>
         /\ ev' = Ev("snoozeAlarm", "notringing", NO_TIME, NO_TIME)
    ELSE /\ alarmRinging' = FALSE
         /\ snoozed' = TRUE
         /\ snoozeHour' = SnoozeTarget(nowHour, nowMinute)[1]
         /\ snoozeMinute' = SnoozeTarget(nowHour, nowMinute)[2]
         /\ UNCHANGED <<alarms, prefs, ringingAlarmId, lastCheckedMinute>>
         /\ cb' = <<>>
         /\ ev' = Ev("snoozeAlarm", "snoozed", nowHour, nowMinute)
         /\ snoozedId' = ringingAlarmId

\* faulty variant: a pending snooze survives the dismiss
DismissAlarm_KeepsSnooze ==
    /\ alarmRinging' = FALSE
    /\ ringingAlarmId' = NO_ALARM
    /\ UNCHANGED <<alarms, prefs, lastCheckedMinute, snoozed, snoozeHour, snoozeMinute>>
    /\ cb' = <<>>
    /\ ev' = Ev("dismissAlarm", "dismissed", NO_TIME, NO_TIME)
    /\ snoozedId' = NO_ALARM

DismissAlarm ==
    /\ alarmRinging' = FALSE
    /\ snoozed' = FALSE
    /\ ringingAlarmId' = NO_ALARM
    /\ UNCHANGED <<alarms, prefs, lastCheckedMinute, snoozeHour, snoozeMinute>>
    /\ cb' = <<>>
    /\ ev' = Ev("dismissAlarm", "dismissed", NO_TIME, NO_TIME)
    /\ snoozedId' = NO_ALARM

\* a power cycle: the constructor, then begin() loads the list from the store
Restart ==
    /\ alarms' = loadFromNVS(prefs)
    /\ UNCHANGED prefs
    /\ alarmRinging' = FALSE
    /\ ringingAlarmId' = NO_ALARM
    /\ lastCheckedMinute' = NEVER_CHECKED
    /\ snoozed' = FALSE
    /\ snoozeHour' = 0
    /\ snoozeMinute' = 0
    /\ cb' = <<>>
    /\ ev' = Ev("construct", "begin", NO_TIME, NO_TIME)
    /\ snoozedId' = NO_ALARM

\* AudioTest::setVolume(v): clamp, keep, write through to the store
SetVolume(v) ==
    /\ volume' = ClampVolume(v)
    /\ audioPrefs' = <<ClampVolume(v)>>
    /\ volumeArg' = v
    /\ volumeChanged' = TRUE
    /\ UNCHANGED <<alarmStartVolume, wasRingingLastLoop>>

\* loop(): the alarm audio, after the button has been handled. The volume is
\* captured when ringing starts; each burst of a built-in tone is played at
\* that volume: setVolume(alarmStartVolume), playTone, then
\* setVolume(currentUserVolume). Iterations are LOOP_MS >= 60 ms apart, so
\* every iteration of a ringing tone alarm plays a burst.
RingingAudio ==
    IF alarmRinging'
    THEN LET start == IF wasRingingLastLoop THEN alarmStartVolume ELSE volume
             seen == getAlarm(alarms', ringingAlarmId')
             currentUserVolume == volume
         IN  /\ alarmStartVolume' = start
             /\ wasRingingLastLoop' = TRUE
             /\ IF seen # NoAlarm /\ seen.sound \in {Tone1, Tone2, Tone3}
                THEN /\ volume' = ClampVolume(currentUserVolume)
                     /\ audioPrefs' = <<ClampVolume(currentUserVolume)>>
                     /\ volumeArg' = currentUserVolume
                     /\ volumeChanged' = TRUE
                ELSE UNCHANGED <<volume, audioPrefs, volumeArg, volumeChanged>>
    ELSE /\ wasRingingLastLoop' = FALSE
         /\ UNCHANGED <<volume, audioPrefs, alarmStartVolume, volumeArg, volumeChanged>>

\* a restart of the device: the constructors and setup() run again on what
\* the two namespaces of the store hold
Reboot ==
    /\ Restart
    /\ btn' = ButtonConstructed
    /\ now' = 0
    /\ pendingSingleClickTime' = 0
    /\ taps' = NoTaps
    /\ volume' = LoadVolume(audioPrefs)
    /\ UNCHANGED audioPrefs
    /\ alarmStartVolume' = 0
    /\ wasRingingLastLoop' = FALSE
    /\ volumeArg' = -1
    /\ volumeChanged' = FALSE
    /\ au' = AudioConstructed
    /\ tk' = [t \in Tasks |-> TaskIdle]
    /\ pcmLoops' = 0
    /\ snap' = AudioConstructed

\* variant of Expired: the pending click is acted on in the next iteration
Expired_AtOnce(pend, t) == pend > 0

\* loop(), line 582: the pending click has waited out the double-click window
Expired(pend, t) == pend > 0 /\ (t - pend) >= DOUBLE_CLICK_MS

\* One loop() iteration, LOOP_MS after the one before it, up to the 1 Hz block:
\* button.update(), the alarm control by button, the alarm audio. rawState is
\* the pin.
\* The 1 Hz block of an iteration is the CheckAlarms step. No button sound is
\* configured (buttonSoundPath is empty), and the calls on the coordinator run
\* to their end within the iteration.
Loop(rawState) ==
    LET t == now + LOOP_MS
        b1 == Update(btn, rawState, t)
        buttonWasPressed == b1.pressedFlag
        buttonWasDoubleClicked == b1.doubleClickFlag
        b3 == wasDoubleClicked(wasPressed(b1), t)
        tp == TapsAfter(taps, btn, b1, t)
        active == alarmRinging \/ snoozed
        pend == IF buttonWasDoubleClicked
                THEN IF active THEN 0 ELSE pendingSingleClickTime
                ELSE IF alarmRinging /\ buttonWasPressed THEN t
                ELSE pendingSingleClickTime
        expired == Expired(pend, t)
    IN  /\ t <= MaxLoops * LOOP_MS
        /\ now' = t
        /\ btn' = b3
        /\ pendingSingleClickTime' = IF expired THEN 0 ELSE pend
        /\ IF buttonWasDoubleClicked /\ active
           THEN DismissAlarm /\ taps' = tp
           ELSE IF expired /\ alarmRinging
           THEN SnoozeAlarm(7, 0)
                /\ taps' = [tp EXCEPT !.snoozedFor = pend]
           ELSE UNCHANGED <<prog, hist, cb, ev>> /\ taps' = tp
        /\ RingingAudio
        /\ LET quiet == IF (buttonWasDoubleClicked /\ active) \/ (expired /\ alarmRinging)
                         THEN Stopped(au) ELSE au      \* audioObj.stop(), lines 560, 586
               seen == getAlarm(alarms', ringingAlarmId')
           IN  au' = IF alarmRinging' /\ seen # NoAlarm
                        /\ seen.sound \in {Tone1, Tone2, Tone3}
                     THEN TonePlayed(quiet)            \* the burst, line 640
                     ELSE quiet
        /\ UNCHANGED <<tk, pcmLoops, snap>>

----------------------------------------------------------------------------
(* Specifications: the same operations, over different input sets *)

Monday == 1
Tuesday == 2
MondayMask == 2

\* Spec: store and engine. The callers set an enabled Monday alarm or an
\* enabled one-shot alarm at 07:00 under each id, and one record with an
\* invalid id; they never send permanentlyDisabled = true, so that a record
\* carries it only once it has fired.
SpecInputs ==
    {Alarm(i, 7, 0, days, TRUE, FALSE) : i \in Ids, days \in {MondayMask, 0}}
    \cup {Alarm(MAX_ALARMS, 7, 0, MondayMask, TRUE, FALSE)}

SpecMinutes == {0, 5}
SpecDays == {Monday, Tuesday}

Next ==
    \/ \E a \in SpecInputs : SetAlarm(a) /\ UNCHANGED periph
    \/ \E id \in Ids : DeleteAlarm(id) /\ UNCHANGED periph
    \/ \E m \in SpecMinutes, d \in SpecDays : CheckAlarms(7, m, d) /\ UNCHANGED periph
    \/ SnoozeAlarm(7, 0) /\ UNCHANGED periph
    \/ DismissAlarm /\ UNCHANGED periph
    \/ Restart /\ UNCHANGED periph

Spec == Init /\ [][Next]_vars

\* SpecSnooze: enabled Monday alarms at 07:00, 07:02 and 07:05, snooze at 07:00
SnoozeInputs ==
    {Alarm(i, 7, m, MondayMask, TRUE, FALSE) : i \in Ids, m \in {0, 2, 5}}

NextSnooze ==
    \/ \E a \in SnoozeInputs : SetAlarm(a) /\ UNCHANGED periph
    \/ \E id \in Ids : DeleteAlarm(id) /\ UNCHANGED periph
    \/ \E m \in {0, 2, 5} : CheckAlarms(7, m, Monday) /\ UNCHANGED periph
    \/ SnoozeAlarm(7, 0) /\ UNCHANGED periph
    \/ DismissAlarm /\ UNCHANGED periph
    \/ Restart /\ UNCHANGED periph

SpecSnooze == Init /\ [][NextSnooze]_vars

\* SpecTrigger: one stored record with every daysOfWeek, checked on every day
TriggerInputs ==
    {Alarm(0, 7, 0, mask, e, p) : mask \in 0..127, e \in BOOLEAN, p \in BOOLEAN}

InitTrigger ==
    /\ \E a \in TriggerInputs :
          /\ alarms = <<a>>
          /\ prefs = saveToNVS(<<a>>, EmptyPrefs)
    /\ Constructed
    /\ cb = <<>>
    /\ ev = Ev("construct", "begin", NO_TIME, NO_TIME)
    /\ snoozedId = NO_ALARM
    /\ PeriphConstructed

NextTrigger ==
    \/ \E h \in {7, 8}, m \in {0, 5}, d \in 0..6 : CheckAlarms(h, m, d) /\ UNCHANGED periph
    \/ SnoozeAlarm(7, 0) /\ UNCHANGED periph
    \/ DismissAlarm /\ UNCHANGED periph
    \/ Restart /\ UNCHANGED periph

SpecTrigger == InitTrigger /\ [][NextTrigger]_vars

\* SpecClock: one Monday alarm at 07:00, snoozed at every time of day
NextClock ==
    \/ SetAlarm(Alarm(0, 7, 0, MondayMask, TRUE, FALSE)) /\ UNCHANGED periph
    \/ CheckAlarms(7, 0, Monday) /\ UNCHANGED periph
    \/ alarmRinging /\ \E h \in 0..23, m \in 0..59 : SnoozeAlarm(h, m) /\ UNCHANGED periph
    \/ ~alarmRinging /\ SnoozeAlarm(0, 0) /\ UNCHANGED periph   \* returns before it reads the clock
    \/ DismissAlarm /\ UNCHANGED periph

SpecClock == Init /\ [][NextClock]_vars

\* one stored Monday 07:00 record per sound: built-in tones, file names, empty
AudioSounds ==
    {Tone1, Tone2, Tone3, <<"a">> \o Mp3, <<"A", ".", "W", "A", "V">>,
     <<"a">> \o M4a, <<"g", "o", "n", "e">> \o Mp3, <<>>}

InitAudio ==
    /\ \E snd \in AudioSounds :
         LET a == [Alarm(0, 7, 0, MondayMask, TRUE, FALSE) EXCEPT !.sound = snd] IN
         /\ alarms = <<a>>
         /\ prefs = saveToNVS(<<a>>, EmptyPrefs)
    /\ Constructed
    /\ cb = <<>>
    /\ ev = Ev("construct", "begin", NO_TIME, NO_TIME)
    /\ snoozedId = NO_ALARM
    /\ PeriphConstructed

NextAudio ==
    \/ \E m \in SpecMinutes : CheckAlarms(7, m, Monday) /\ UNCHANGED periph
    \/ SnoozeAlarm(7, 0) /\ UNCHANGED periph
    \/ DismissAlarm /\ UNCHANGED periph
    \/ DeleteAlarm(0) /\ UNCHANGED periph
    \/ Restart /\ UNCHANGED periph

SpecAudio == InitAudio /\ [][NextAudio]_vars

\* SpecButton: one stored Monday 07:00 alarm, the 1 Hz check at 07:00, and
\* the button sampled every LOOP_MS
InitButton ==
    /\ alarms = <<Alarm(0, 7, 0, MondayMask, TRUE, FALSE)>>
    /\ prefs = saveToNVS(alarms, EmptyPrefs)
    /\ Constructed
    /\ cb = <<>>
    /\ ev = Ev("construct", "begin", NO_TIME, NO_TIME)
    /\ snoozedId = NO_ALARM
    /\ PeriphConstructed

NextButton ==
    \/ CheckAlarms(7, 0, Monday) /\ UNCHANGED periph
    \/ now < MaxRingLoops * LOOP_MS /\ \E rawState \in BOOLEAN : Loop(rawState)

SpecButton == InitButton /\ [][NextButton]_vars

\* SpecRing: as SpecButton, with an alarm of each kind of sound stored and
\* the audio the ring callback starts
RingSounds == {Tone1, <<"a", ".", "m", "p", "3">>}

InitRing ==
    /\ \E snd \in RingSounds :
         LET a == [Alarm(0, 7, 0, MondayMask, TRUE, FALSE) EXCEPT !.sound = snd] IN
         /\ alarms = <<a>>
         /\ prefs = saveToNVS(<<a>>, EmptyPrefs)
    /\ Constructed
    /\ cb = <<>>
    /\ ev = Ev("construct", "begin", NO_TIME, NO_TIME)
    /\ snoozedId = NO_ALARM
    /\ PeriphConstructed

\* checkAlarms with the callback of setup()
CheckAlarmsRing(hour, minute, dayOfWeek) ==
    /\ CheckAlarms(hour, minute, dayOfWeek)
    /\ \E decoderOk \in BOOLEAN :
         au' = IF cb' = <<>> THEN au ELSE CallbackAudio(au, cb'[1].seen, decoderOk)
    /\ UNCHANGED <<buttonVars, audioVars, tk, pcmLoops, snap>>

NextRing ==
    \/ CheckAlarmsRing(7, 0, Monday)
    \/ now < MaxRingLoops * LOOP_MS /\ \E rawState \in BOOLEAN : Loop(rawState)

SpecRing == InitRing /\ [][NextRing]_vars

\* SpecClicks: the button alone, no alarm stored
NextClicks == \E rawState \in BOOLEAN : Loop(rawState)

SpecClicks == Init /\ [][NextClicks]_vars

\* SpecStore: records of id 0 with every flag and with text fields that are
\* empty, plain, or contain the field delimiter
CommaText == <<"a", ",", "b">>
StoreInputs ==
    {[Alarm(0, 7, 0, MondayMask, TRUE, p) EXCEPT
        !.sound = s, !.label = l, !.snoozeEnabled = z, !.bottomRowLabel = b] :
        p \in BOOLEAN, z \in BOOLEAN,
        s \in {Tone1, <<>>, CommaText},
        l \in {DefaultLabel, <<>>, CommaText},
        b \in {<<>>, <<"x">>, CommaText}}

NextStore ==
    \/ \E a \in StoreInputs : SetAlarm(a) /\ UNCHANGED periph
    \/ DeleteAlarm(0) /\ UNCHANGED periph
    \/ CheckAlarms(7, 0, Monday) /\ UNCHANGED periph
    \/ Restart /\ UNCHANGED periph

SpecStore == Init /\ [][NextStore]_vars

\* SpecVolume: the volume, set over BLE or serial while an alarm may ring
VolumeInputs == {0, 1, 70, 99, 100, 101, 150, 255}
MaxVolumeLoops == 2

NextVolume ==
    \/ \E v \in VolumeInputs :
         SetVolume(v) /\ UNCHANGED <<prog, hist, cb, ev, buttonVars, coordVars>>
    \/ CheckAlarms(7, 0, Monday) /\ UNCHANGED periph
    \/ now < MaxVolumeLoops * LOOP_MS /\ \E rawState \in BOOLEAN : Loop(rawState)
    \/ Reboot

SpecVolume == InitButton /\ [][NextVolume]_vars

----------------------------------------------------------------------------
(* Specifications of the audio coordinator: its three tasks, interleaved *)

\* what no operation of the coordinator touches
outside == <<prog, hist, cb, ev, buttonVars, alarmStartVolume, wasRingingLastLoop>>
\* the same, and the call under watch is not this one
apart == <<outside, snap>>

\* SpecCoord: loop() of main.cpp and the BLE callbacks call the operations,
\* audioTask calls loop(); every wait for the mutex of playFile and stopFile
\* ends with the mutex
CoordFiles == {<<"a", ".", "m", "p", "3">>, <<"g", "o", "n", "e", ".", "m", "p", "3">>}

NextCoord ==
    \/ CallPlayTone("main") /\ UNCHANGED apart
    \/ \E t \in Callers : CallStop(t) /\ UNCHANGED apart
    \/ CallStopFileOp("main") /\ UNCHANGED apart
    \/ \E path \in CoordFiles, loop \in BOOLEAN :
         CallPlayFile("main", path, loop) /\ UNCHANGED apart
    \/ CallPlayPCMBuffer("main", CHUNK_SIZE) /\ UNCHANGED apart
    \/ CallIsPlaying("main") /\ UNCHANGED apart
    \/ CallLoop("audio") /\ UNCHANGED apart
    \/ PlayTone("main") /\ UNCHANGED apart
    \/ \E t \in Callers : Stop(t) /\ UNCHANGED apart
    \/ \E t \in Tasks : StopFile(t) /\ UNCHANGED apart
    \/ PlayFile("main") /\ UNCHANGED apart
    \/ PlayPCMBuffer("main") /\ UNCHANGED apart
    \/ IsPlaying("main") /\ UNCHANGED apart
    \/ LoopSteps("audio") /\ UNCHANGED apart
    \/ LoopSkip("audio") /\ UNCHANGED apart

SpecCoord == Init /\ [][NextCoord]_vars

\* SpecPlay: one caller, loop() of main.cpp, calls the playback operations one
\* after the other while audioTask calls loop(); every wait for the mutex
\* ends with the mutex. snap is the coordinator at the last playFile call.
NextPlay ==
    \/ \E path \in CoordPaths, loop \in BOOLEAN :
         CallPlayFile("main", path, loop) /\ snap' = au /\ UNCHANGED outside
    \/ CallPlayTone("main") /\ UNCHANGED apart
    \/ CallPlayPCMBuffer("main", CHUNK_SIZE) /\ UNCHANGED apart
    \/ CallLoop("audio") /\ UNCHANGED apart
    \/ PlayFile("main") /\ UNCHANGED apart
    \/ PlayTone("main") /\ UNCHANGED apart
    \/ PlayPCMBuffer("main") /\ UNCHANGED apart
    \/ \E t \in {"main", "audio"} : StopFile(t) /\ UNCHANGED apart
    \/ LoopSteps("audio") /\ UNCHANGED apart
    \/ LoopSkip("audio") /\ UNCHANGED apart

SpecPlay == Init /\ [][NextPlay]_vars

\* SpecPcm: loop() of main.cpp starts 16-bit stereo buffers of these sizes
\* (the button sound of lines 543-546) and calls stopFile() (line 539) while
\* audioTask calls loop(); no file is played, the tone driver stays installed
PcmSizes == {1, CHUNK_SIZE, CHUNK_SIZE + 1, 2 * CHUNK_SIZE, 2 * CHUNK_SIZE + 1}

NextPcm ==
    \/ \E sizeBytes \in PcmSizes :
         CallPlayPCMBuffer("main", sizeBytes) /\ UNCHANGED apart
    \/ CallStopFileOp("main") /\ UNCHANGED apart
    \/ CallLoop("audio") /\ UNCHANGED apart
    \/ PlayPCMBuffer("main") /\ UNCHANGED apart
    \/ StopFile("main") /\ UNCHANGED apart
    \/ LoopSteps("audio") /\ UNCHANGED apart
    \/ LoopSkip("audio") /\ UNCHANGED apart

SpecPcm == Init /\ [][NextPcm]_vars

\* SpecFormats: loop() of main.cpp starts the button sound (lines 543-546)
\* again and again while audioTask calls loop(). The button sound is one
\* preloaded WAV, of any format and length that preloadButtonSound accepts;
\* a format playPCMBuffer rejects is tried as well.
FormatSizes == 1 .. (CHUNK_SIZE + 2)
FormatBits == {8, 16, 24}
FormatChannels == {1, 2}

NextFormats ==
    \/ /\ au.pcmSizeBytes = 0
       /\ \E sizeBytes \in FormatSizes, bits \in FormatBits, channels \in FormatChannels :
            CallPlayPCMFormat("main", sizeBytes, bits, channels)
       /\ UNCHANGED apart
    \/ /\ au.pcmSizeBytes # 0 /\ ~au.overrun
       /\ CallPlayPCMFormat("main", au.pcmSizeBytes, au.pcmBits, au.pcmChannels)
       /\ UNCHANGED apart
    \/ ~au.overrun /\ CallLoop("audio") /\ UNCHANGED apart
    \/ ~au.overrun /\ PlayPCMBuffer("main") /\ UNCHANGED apart
    \/ ~au.overrun /\ LoopSteps("audio") /\ UNCHANGED apart

SpecFormats == Init /\ [][NextFormats]_vars

\* SpecTimeout: loop() of main.cpp plays a file and stops it while audioTask
\* calls loop(), and a wait of playFile or stopFile for a mutex that another
\* task holds may reach its 1000 ms
NextTimeout ==
    \/ \E loop \in BOOLEAN :
         CallPlayFile("main", <<"a", ".", "m", "p", "3">>, loop) /\ UNCHANGED apart
    \/ CallStopFileOp("main") /\ UNCHANGED apart
    \/ CallLoop("audio") /\ UNCHANGED apart
    \/ PlayFile("main") /\ UNCHANGED apart
    \/ PlayFileTimeout("main") /\ UNCHANGED apart
    \/ \E t \in {"main", "audio"} : StopFile(t) /\ UNCHANGED apart
    \/ \E t \in {"main", "audio"} : StopFileTimeout(t) /\ UNCHANGED apart
    \/ LoopSteps("audio") /\ UNCHANGED apart
    \/ LoopSkip("audio") /\ UNCHANGED apart

SpecTimeout == Init /\ [][NextTimeout]_vars

\* SpecGain: the BLE volume callback calls setVolume with these values while
\* loop() of main.cpp plays a file and stops it and audioTask calls loop()
GainVolumes == {30, 100}

NextGain ==
    \/ \E v \in GainVolumes :
         CallSetVolume("ble", v) /\ UNCHANGED apart
    \/ CallPlayFile("main", <<"a", ".", "m", "p", "3">>, TRUE) /\ UNCHANGED apart
    \/ CallStopFileOp("main") /\ UNCHANGED apart
    \/ CallLoop("audio") /\ UNCHANGED apart
    \/ SetVolumeSteps("ble") /\ UNCHANGED <<au, pcmLoops, apart>>
    \/ PlayFile("main") /\ UNCHANGED apart
    \/ \E t \in {"main", "audio"} : StopFile(t) /\ UNCHANGED apart
    \/ LoopSteps("audio") /\ UNCHANGED apart
    \/ LoopSkip("audio") /\ UNCHANGED apart

SpecGain == Init /\ [][NextGain]_vars

----------------------------------------------------------------------------
(* A store written by earlier firmware: records with fewer fields *)

\* the nine fields of the record format, in the order the store holds them
FieldsOf(a) ==
    <<StringOf(a.hour), StringOf(a.minute), StringOf(a.daysOfWeek),
      StringOf(Bit(a.enabled)), a.sound, a.label,
      StringOf(Bit(a.snoozeEnabled)), StringOf(Bit(a.permanentlyDisabled)),
      a.bottomRowLabel>>

RECURSIVE JoinFields(_)
JoinFields(f) ==
    IF Len(f) = 1 THEN f[1]
    ELSE f[1] \o <<",">> \o JoinFields(Tail(f))

\* the first k fields of the record of a, comma separated
LegacyRecord(a, k) == JoinFields(SubSeq(FieldsOf(a), 1, k))

\* the number of fields a stored record can have: five (sound only) up to nine
PrefixLengths == 5..9

LegacyAlarms ==
    {[Alarm(0, 7, 0, MondayMask, TRUE, p) EXCEPT
         !.sound = snd, !.label = lbl, !.snoozeEnabled = z, !.bottomRowLabel = brl] :
       p \in BOOLEAN, z \in BOOLEAN, snd \in {Tone1, <<"b">>},
       lbl \in {DefaultLabel, <<"U", "p">>}, brl \in {<<>>, <<"x">>}}

\* begin() on a store that holds one record of k fields under alarm_0
InitLegacy ==
    /\ \E a \in LegacyAlarms : \E k \in PrefixLengths :
         prefs = PutString(EmptyPrefs, getAlarmKey(0), LegacyRecord(a, k))
    /\ alarms = loadFromNVS(prefs)
    /\ Constructed
    /\ cb = <<>>
    /\ ev = Ev("construct", "begin", NO_TIME, NO_TIME)
    /\ snoozedId = NO_ALARM
    /\ PeriphConstructed

NextLegacy ==
    \/ CheckAlarms(7, 0, Monday) /\ UNCHANGED periph
    \/ SnoozeAlarm(7, 0) /\ UNCHANGED periph
    \/ DismissAlarm /\ UNCHANGED periph
    \/ SetAlarm(Alarm(1, 7, 0, MondayMask, TRUE, FALSE)) /\ UNCHANGED periph
    \/ DeleteAlarm(1) /\ UNCHANGED periph
    \/ Restart /\ UNCHANGED periph

SpecLegacy == InitLegacy /\ [][NextLegacy]_vars

----------------------------------------------------------------------------
(* Vocabulary of the claims, stated without the model's own helpers *)

AllDays == 0..6

\* bit d of a daysOfWeek mask
BitOf(mask, d) == (mask \div (2 ^ d)) % 2 = 1

\* the record is one the scan may fire
Armed(a) == a.enabled /\ ~a.permanentlyDisabled

\* the record is scheduled for hour:minute on day d
Scheduled(a, hour, minute, d) ==
    /\ a.hour = hour
    /\ a.minute = minute
    /\ (a.daysOfWeek = 0 \/ BitOf(a.daysOfWeek, d))

\* the callback log c holds exactly one call, made from the schedule scan for id
ScanFiredIn(c, id) == Len(c) = 1 /\ c[1].via = "scan" /\ c[1].id = id

\* the callback log c holds exactly one call, made for a due snooze
SnoozeFiredIn(c) == Len(c) = 1 /\ c[1].via = "snooze"

----------------------------------------------------------------------------
(* C1: for an enabled, not permanently disabled record with daysOfWeek # 0,
   a checkAlarms(hour, minute, dayOfWeek) call that is not stopped by the
   minute dedup, by a due snooze or by an earlier matching record fires that
   record if and only if hour and minute are equal and bit dayOfWeek of
   daysOfWeek is set. Checked under SpecTrigger: every mask 0..127, every
   day 0..6. *)
C1_TriggerIff ==
    [][\A d \in AllDays :
        (ev'.op = "checkAlarms" /\ CheckAlarms(ev'.hour, ev'.minute, d))
        => /\ ( /\ ev'.minute # lastCheckedMinute
                /\ ~(snoozed /\ ev'.hour = snoozeHour /\ ev'.minute = snoozeMinute) )
              => \A i \in 1..Len(alarms) :
                   ( /\ Armed(alarms[i])
                     /\ alarms[i].daysOfWeek # 0
                     /\ \A j \in 1..(i - 1) :
                          ~(Armed(alarms[j])
                            /\ Scheduled(alarms[j], ev'.hour, ev'.minute, d)) )
                   => ( ( /\ ScanFiredIn(cb', alarms[i].id)
                          /\ alarmRinging'
                          /\ ringingAlarmId' = alarms[i].id )
                        <=> ( /\ alarms[i].hour = ev'.hour
                              /\ alarms[i].minute = ev'.minute
                              /\ BitOf(alarms[i].daysOfWeek, d) ) )
           /\ \A i \in 1..Len(alarms) :
                (alarms[i].daysOfWeek # 0 /\ ~BitOf(alarms[i].daysOfWeek, d))
                => ~ScanFiredIn(cb', alarms[i].id)
      ]_vars

\* a record for Monday, Wednesday and Friday has been fired by the scan
C1_Witness ==
    /\ Len(cb) = 1
    /\ cb[1].via = "scan"
    /\ cb[1].seen.daysOfWeek = 42
    /\ alarmRinging
    /\ ringingAlarmId = cb[1].id

(* C2: a one-shot record (daysOfWeek = 0) fires at most once: the scan that
   fires it leaves it with enabled = false and permanentlyDisabled = true, and
   from then on no checkAlarms, snoozeAlarm or dismissAlarm call changes the
   record or fires it from the scan. *)
C2_OneShotFiresOnce ==
    [][ /\ \A id \in 0..(MAX_ALARMS - 1) :
             (ScanFiredIn(cb', id) /\ getAlarm(alarms, id).daysOfWeek = 0)
             => /\ getAlarm(alarms', id).enabled = FALSE
                /\ getAlarm(alarms', id).permanentlyDisabled = TRUE
        /\ \A id \in 0..(MAX_ALARMS - 1) :
             ( /\ getAlarm(alarms, id) # NoAlarm
               /\ getAlarm(alarms, id).daysOfWeek = 0
               /\ getAlarm(alarms, id).permanentlyDisabled
               /\ ev'.op \in {"checkAlarms", "snoozeAlarm", "dismissAlarm"} )
             => /\ getAlarm(alarms', id) = getAlarm(alarms, id)
                /\ ~ScanFiredIn(cb', id)
      ]_vars

\* a one-shot record has fired, and a later evaluation at its own time, with
\* nothing else to fire, fired nothing
C2_Witness ==
    /\ ev.op = "checkAlarms"
    /\ ev.path = "nomatch"
    /\ \E i \in 1..Len(alarms) :
         /\ alarms[i].daysOfWeek = 0
         /\ alarms[i].permanentlyDisabled
         /\ ~alarms[i].enabled
         /\ alarms[i].hour = ev.hour
         /\ alarms[i].minute = ev.minute

(* C3 (the claim as stated): once a one-shot record has fired, setAlarm on
   its id with daysOfWeek = 0 again leaves permanentlyDisabled true. Under
   Spec no caller sends permanentlyDisabled = true, so the record this is
   about is a fired one. *)
C3_ReenableStaysDisabled ==
    [][\A id \in 0..(MAX_ALARMS - 1) :
        ( /\ getAlarm(alarms, id) # NoAlarm
          /\ getAlarm(alarms, id).daysOfWeek = 0
          /\ getAlarm(alarms, id).permanentlyDisabled
          /\ ev'.op = "setAlarm"
          /\ getAlarm(alarms', id) # NoAlarm
          /\ getAlarm(alarms', id).daysOfWeek = 0 )
        => getAlarm(alarms', id).permanentlyDisabled
      ]_vars

(* C4: when the scan fires a one-shot record, the record the callback sees
   when it starts already has enabled = false and permanentlyDisabled = true,
   the value in the durable store already encodes that, and the list a
   restart loads from the store holds the record disabled, so that no
   checkAlarms call after the restart fires it; in every later state too,
   a one-shot record that is permanently disabled in memory is reloaded
   from the store as a record the scan skips. *)
C4_DisabledBeforeCallback ==
    /\ \A i \in 1..Len(alarms) :
         (alarms[i].daysOfWeek = 0 /\ alarms[i].permanentlyDisabled)
         => /\ getAlarm(loadFromNVS(prefs), alarms[i].id) # NoAlarm
            /\ ~Armed(getAlarm(loadFromNVS(prefs), alarms[i].id))
    /\ \A k \in 1..Len(cb) :
             (cb[k].via = "scan" /\ cb[k].seen.daysOfWeek = 0)
             => /\ cb[k].seen.enabled = FALSE
                /\ cb[k].seen.permanentlyDisabled = TRUE
                /\ Parses(cb[k].stored)
                /\ DecodeAlarm(cb[k].id, cb[k].stored).enabled = FALSE
                /\ DecodeAlarm(cb[k].id, cb[k].stored).permanentlyDisabled = TRUE
                /\ LET reloaded == getAlarm(loadFromNVS(prefs), cb[k].id) IN
                     /\ reloaded # NoAlarm
                     /\ ~Armed(reloaded)

\* a one-shot record has been fired and the callback invoked for it
C4_Witness ==
    /\ Len(cb) = 1
    /\ cb[1].via = "scan"
    /\ cb[1].seen.daysOfWeek = 0
    /\ alarmRinging

(* C5: one checkAlarms call rings at most one alarm. When it reaches the
   scan, the first armed record in list order that is scheduled for the
   given time fires: the callback is invoked exactly once, with that id,
   ringingAlarmId is that id, and no other record is changed; when no armed
   record is scheduled, nothing fires. *)
C5_FirstMatchOnly ==
    [][\A d \in AllDays :
        (ev'.op = "checkAlarms" /\ CheckAlarms(ev'.hour, ev'.minute, d))
        => /\ Len(cb') <= 1
           /\ ( /\ ev'.minute # lastCheckedMinute
                /\ ~(snoozed /\ ev'.hour = snoozeHour /\ ev'.minute = snoozeMinute) )
              => LET M == {i \in 1..Len(alarms) :
                             Armed(alarms[i])
                             /\ Scheduled(alarms[i], ev'.hour, ev'.minute, d)}
                 IN  IF M = {}
                     THEN cb' = <<>> /\ alarms' = alarms
                     ELSE /\ ScanFiredIn(cb', alarms[SetMin(M)].id)
                          /\ alarmRinging'
                          /\ ringingAlarmId' = alarms[SetMin(M)].id
                          /\ Len(alarms') = Len(alarms)
                          /\ \A j \in 1..Len(alarms) :
                               j # SetMin(M) => alarms'[j] = alarms[j]
      ]_vars

\* ids 0 then 1, both armed for 07:00 Monday: id 0 has fired, id 1 has not
C5_Witness ==
    /\ Len(alarms) = 2
    /\ alarms[1].id = 0
    /\ alarms[2].id = 1
    /\ \A i \in 1..2 :
         Armed(alarms[i]) /\ Scheduled(alarms[i], 7, 0, 1) /\ alarms[i].daysOfWeek # 0
    /\ ScanFiredIn(cb, 0)
    /\ ringingAlarmId = 0

(* C6: a checkAlarms call with the minute of the call before it (the value
   held in lastCheckedMinute) changes no engine state, no record, nothing in
   the durable store, and invokes no callback. *)
C6_IdempotentWithinMinute ==
    [][ ( /\ ev'.op = "checkAlarms"
          /\ \/ ev'.minute = lastCheckedMinute
             \/ (ev.op = "checkAlarms" /\ ev.minute = ev'.minute) )
        => (UNCHANGED prog /\ cb' = <<>>)
      ]_vars

\* a deduplicated call at the time of an armed record, while nothing rings
C6_Witness ==
    /\ ev.op = "checkAlarms"
    /\ ev.path = "dedup"
    /\ ~alarmRinging
    /\ \E i \in 1..Len(alarms) :
         Armed(alarms[i]) /\ alarms[i].hour = ev.hour /\ alarms[i].minute = ev.minute

(* C7 (the claim as stated): a checkAlarms call whose (hour, minute) differs
   from that of the call just before it evaluates the schedule, also when
   only the hour differs. *)
C7_EvaluatedPerHourMinute ==
    [][ ( /\ ev.op = "checkAlarms"
          /\ ev'.op = "checkAlarms"
          /\ (ev'.hour # ev.hour \/ ev'.minute # ev.minute) )
        => lastCheckedMinute # ev'.minute
      ]_vars

(* C8: a checkAlarms call at the stored snooze target while a snooze is
   active sets ringing, clears snoozed, invokes the callback once, and
   leaves every record and the durable store as they were: the schedule is
   not scanned in that call. *)
C8_SnoozeBeforeScan ==
    [][ ( /\ ev'.op = "checkAlarms"
          /\ ev'.minute # lastCheckedMinute
          /\ snoozed
          /\ ev'.hour = snoozeHour
          /\ ev'.minute = snoozeMinute )
        => /\ alarmRinging'
           /\ ~snoozed'
           /\ SnoozeFiredIn(cb')
           /\ cb'[1].id = ringingAlarmId
           /\ ringingAlarmId' = ringingAlarmId
           /\ alarms' = alarms
           /\ prefs' = prefs
      ]_vars

\* the snooze has re-rung at a minute for which an armed Monday record is stored
C8_Witness ==
    /\ SnoozeFiredIn(cb)
    /\ alarmRinging
    /\ \E i \in 1..Len(alarms) :
         Armed(alarms[i]) /\ Scheduled(alarms[i], ev.hour, ev.minute, 1)

(* C9 (the claim as stated): the re-ring at the snooze target is for the
   alarm that was ringing when snoozeAlarm was called: the callback gets
   that id and ringingAlarmId is that id. *)
C9_SnoozeKeepsAlarm ==
    SnoozeFiredIn(cb) => (cb[1].id = snoozedId /\ ringingAlarmId = snoozedId)

(* C10: snoozeAlarm while ringing at h:m stores (h*60 + m + 5) mod 1440 as
   (snoozeHour, snoozeMinute), with snoozeHour in 0..23 and snoozeMinute in
   0..59, clears ringing and sets snoozed; while not ringing it changes
   nothing. Checked under SpecClock: every h in 0..23 and m in 0..59. *)
C10_SnoozeTarget ==
    [][ ev'.op = "snoozeAlarm"
        => IF alarmRinging
           THEN /\ snoozeHour' * 60 + snoozeMinute' = (ev'.hour * 60 + ev'.minute + 5) % 1440
                /\ snoozeHour' \in 0..23
                /\ snoozeMinute' \in 0..59
                /\ ~alarmRinging'
                /\ snoozed'
           ELSE UNCHANGED prog
      ]_vars

\* snoozed at 23:59: the target is 00:04
C10_Witness ==
    /\ ev = Ev("snoozeAlarm", "snoozed", 23, 59)
    /\ snoozed
    /\ ~alarmRinging
    /\ snoozeHour = 0
    /\ snoozeMinute = 4

(* C11: dismissAlarm from any engine state ends in Idle: ringing false,
   snoozed false, ringingAlarmId 255; a second dismissAlarm right after it
   changes nothing; and dismissAlarm never changes the alarm list or the
   durable store. *)
C11_DismissToIdle ==
    [][ ev'.op = "dismissAlarm"
        => /\ ~alarmRinging'
           /\ ~snoozed'
           /\ ringingAlarmId' = 255
           /\ alarms' = alarms
           /\ prefs' = prefs
           /\ (ev.op = "dismissAlarm" => UNCHANGED prog)
      ]_vars

\* dismissed after a snooze to 07:05 whose minute has not been evaluated,
\* with a record stored
C11_Witness ==
    /\ ev.op = "dismissAlarm"
    /\ ~alarmRinging
    /\ ~snoozed
    /\ ringingAlarmId = 255
    /\ snoozeHour = 7
    /\ snoozeMinute = 5
    /\ lastCheckedMinute = 0
    /\ Len(alarms) > 0

(* C12 (the claim as stated): whenever the callback is invoked, for the
   initial fire or the snooze re-ring, it starts audio: a built-in tone, the
   sound file, or the fallback tone. The sound file exists only under a name
   the upload accepts, and its decoder starts. *)
C12_RingingPlays ==
    \A k \in 1..Len(cb) :
        \A exists \in BOOLEAN :
            (exists => (cb[k].seen # NoAlarm /\ isValidFilename(cb[k].seen.sound)))
            => RingAudio(cb[k].seen, exists, TRUE) # "none"

(* C13 (the claim as stated): snoozeAlarm is never invoked for a press that
   belongs to a pair of clicks the debouncer reports as a double-click: of
   the two presses of the pair last reported, neither is the press whose
   pending click led to snoozeAlarm. *)
C13_NoSnoozeInDoubleClick ==
    taps.snoozedFor = 0 \/ taps.snoozedFor \notin taps.doubled

(* C14: the double-click flag is set on exactly those debounced releases
   that come less than 700 ms after a release that was the first of a pair:
   the second release of a pair sets it and resets the counter to 0; any
   other release (the first ever, one 700 ms or more after the previous
   one, or one that follows a completed pair) sets no flag and leaves the
   counter at 1; and a loop() iteration without a release finds no flag. *)
C14_DoubleClickOncePerPair ==
    [][ IF btn.currentState /\ ~btn'.currentState
        THEN LET second == taps.open /\ now' - taps.lastRelease < 700 IN
             /\ taps'.dbl <=> second
             /\ btn'.clickCount = IF second THEN 0 ELSE 1
        ELSE ~taps'.dbl
      ]_vars

\* a double-click has just been reported, at least 1200 ms after boot, which
\* leaves room for it to be the second pair
C14_Witness ==
    /\ taps.dbl
    /\ ~taps.open
    /\ btn.clickCount = 0
    /\ taps.lastRelease = now
    /\ taps.lastRelease - taps.lastPress < 700
    /\ now >= 1200

(* C15: after every setAlarm, deleteAlarm and startup load the list holds
   at most MAX_ALARMS records, every id is below MAX_ALARMS and no two
   records share an id; an accepted setAlarm on a stored id overwrites that
   record where it is (same length, every other position unchanged), and
   on a new id appends the record at the end. *)
C15_ListShape ==
    [][ /\ Len(alarms') <= MAX_ALARMS
        /\ \A i \in 1..Len(alarms') : alarms'[i].id < MAX_ALARMS
        /\ \A i, j \in 1..Len(alarms') : alarms'[i].id = alarms'[j].id => i = j
        /\ \A a \in SpecInputs :
             (SetAlarm(a) /\ a.id < MAX_ALARMS)
             => IF \E i \in 1..Len(alarms) : alarms[i].id = a.id
                THEN /\ Len(alarms') = Len(alarms)
                     /\ \A i \in 1..Len(alarms) :
                          alarms'[i] = IF alarms[i].id = a.id THEN a ELSE alarms[i]
                ELSE alarms' = Append(alarms, a)
      ]_vars

\* id 1 was stored first and id 0 appended after it; id 0 has since been
\* overwritten (it is a one-shot record now) and is still in second place
C15_Witness ==
    /\ ev.op = "setAlarm"
    /\ Len(alarms) = 2
    /\ alarms[1].id = 1
    /\ alarms[2].id = 0
    /\ alarms[1].daysOfWeek # 0
    /\ alarms[2].daysOfWeek = 0

(* C16: setAlarm with an id of MAX_ALARMS or more, and deleteAlarm of an id
   that is not in the list, take the path that returns false and change
   neither the list, nor the durable store, nor the engine state. *)
C16_FailedStoreOps ==
    [][ /\ \A a \in SpecInputs :
             (SetAlarm(a) /\ a.id >= 10)
             => (ev'.path = "invalid" /\ UNCHANGED prog)
        /\ \A id \in Ids :
             (DeleteAlarm(id) /\ \A i \in 1..Len(alarms) : alarms[i].id # id)
             => (ev'.path = "notfound" /\ UNCHANGED prog)
      ]_vars

\* a rejected setAlarm while two records are stored and one is ringing
C16_Witness ==
    /\ ev.op = "setAlarm"
    /\ ev.path = "invalid"
    /\ Len(alarms) = 2
    /\ alarmRinging

(* C17 (the claim as stated): after every return of setAlarm, deleteAlarm
   and checkAlarms the durable store has an alarm key for exactly the ids in
   the list, and the value under each key is the encoding of the record of
   that id now in the list. *)
C17_WriteThrough ==
    (ev.op \in {"setAlarm", "deleteAlarm", "checkAlarms"})
    => /\ \A id \in 0..(MAX_ALARMS - 1) :
            IsKey(prefs, getAlarmKey(id)) <=> (\E i \in 1..Len(alarms) : alarms[i].id = id)
       /\ \A i \in 1..Len(alarms) :
            GetString(prefs, getAlarmKey(alarms[i].id)) = EncodeAlarm(alarms[i])

(* C18 (the claim as stated): what a startup load reads back from the
   store, right after an accepted setAlarm wrote it, is for every id a
   record equal in all fields to the one in the list, also for empty text
   fields and for text fields that contain the delimiter. *)
C18_RoundTrip ==
    (ev.op = "setAlarm" /\ ev.path = "saved")
    => /\ Len(loadFromNVS(prefs)) = Len(alarms)
       /\ \A i \in 1..Len(alarms) :
            getAlarm(loadFromNVS(prefs), alarms[i].id) = alarms[i]

----------------------------------------------------------------------------
\* the fields of a stored value: the text between its commas
RECURSIVE SplitFields(_, _, _)
SplitFields(s, i, cur) ==
    IF i > Len(s) THEN <<cur>>
    ELSE IF s[i] = "," THEN <<cur>> \o SplitFields(s, i + 1, <<>>)
    ELSE SplitFields(s, i + 1, Append(cur, s[i]))

PresentFields(data) == SplitFields(data, 1, <<>>)

\* the record a prefix of the nine fields stands for: each present field with
\* its own value, each missing trailing field with its default
PrefixDecoding(id, f) ==
    [id |-> id,
     hour |-> ToInt(f[1]),
     minute |-> ToInt(f[2]),
     daysOfWeek |-> ToInt(f[3]),
     enabled |-> (ToInt(f[4]) = 1),
     sound |-> f[5],
     label |-> IF Len(f) >= 6 THEN f[6] ELSE DefaultLabel,
     snoozeEnabled |-> IF Len(f) >= 7 THEN ToInt(f[7]) = 1 ELSE TRUE,
     permanentlyDisabled |-> IF Len(f) >= 8 THEN ToInt(f[8]) = 1 ELSE FALSE,
     bottomRowLabel |-> IF Len(f) >= 9 THEN f[9] ELSE <<>>]

\* C19: right after the load at begin(), every stored value of five to nine
\* fields has become a record whose present fields carry their own values and
\* whose missing trailing fields carry the defaults (label "Alarm", snooze
\* enabled, not permanently disabled, empty bottom-row label); a six-field
\* value yields its sound and its label separately.
C19_LegacyPrefix ==
    (ev.op = "construct")
    => \A id \in 0..(MAX_ALARMS - 1) :
         IsKey(prefs, getAlarmKey(id))
         => LET f == PresentFields(GetString(prefs, getAlarmKey(id))) IN
            Len(f) \in PrefixLengths
            => getAlarm(alarms, id) = PrefixDecoding(id, f)

\* the same with the six-field value left out
C19_LegacyPrefixButSix ==
    (ev.op = "construct")
    => \A id \in 0..(MAX_ALARMS - 1) :
         IsKey(prefs, getAlarmKey(id))
         => LET f == PresentFields(GetString(prefs, getAlarmKey(id))) IN
            Len(f) \in PrefixLengths \ {6}
            => getAlarm(alarms, id) = PrefixDecoding(id, f)

----------------------------------------------------------------------------
\* C20: the volume and the stored volume are always within 0..100; after
\* setVolume(v) both are min(v, 100), for every v of a uint8_t (150 gives 100),
\* so no call is rejected; begin() and the alarm audio of loop() keep the
\* volume within 0..100.
C20_VolumeClamped ==
    /\ volume \in 0..MAX_VOLUME
    /\ audioPrefs # <<>> => audioPrefs[1] \in 0..MAX_VOLUME
    /\ \A v \in 0..255 :
         ClampVolume(v) = (IF v <= 100 THEN v ELSE 100)
    /\ volumeArg # -1
       => /\ volume = (IF volumeArg <= 100 THEN volumeArg ELSE 100)
          /\ audioPrefs = <<volume>>

C20_Witness ==
    /\ volumeArg = 150
    /\ volume = 100
    /\ audioPrefs = <<100>>
    /\ alarmRinging

----------------------------------------------------------------------------
\* the shared playback state of the coordinator, the mutex apart
Playback(a) ==
    <<a.currentSoundType, a.mp3, a.wav, a.audioFile, a.audioOut, a.loopFile,
      a.currentFilePath, a.pcmSizeBytes, a.pcmPosition, a.pcmPlaying,
      a.i2sInstalled>>

\* C21 (the claim as stated): a step of a task that changes the shared playback
\* state (mode, decoder, source and output handles, loop flag, file path, PCM
\* buffer and cursor, the installed output driver) is taken while that task
\* holds the audio mutex.
C21_WritesUnderMutex ==
    [][\A t \in Tasks :
         (tk'[t] # tk[t] /\ Playback(au') # Playback(au)) => au.audioMutex = t]_vars

\* C22: a task that is about to take the mutex, in stopFile() as in playFile()
\* and loop(), does not hold it: playFile() and loop() have given it back
\* before their nested stopFile() call, the other callers never took it.
C22_NoStopFileUnderMutex ==
    \A t \in Tasks :
        tk[t].pc \in {"sf_take", "pf_take", "pf_retake", "lp_take"}
        => au.audioMutex # t

C22_Witness ==
    /\ tk["main"].op = "playFile"
    /\ tk["main"].pc = "sf_take"
    /\ tk["audio"].pc = "sf_take"

\* no task is inside an operation of the coordinator
Quiet == \A t \in Tasks : tk[t].pc = "idle"

\* C23 (the claim as stated): with no hand-off in progress the tone driver is
\* installed exactly when the file output does not exist, and a task that
\* writes tone samples or a PCM chunk does so while the tone driver is
\* installed and no file output exists.
C23_OneOwner ==
    /\ Quiet => (au.i2sInstalled <=> ~au.audioOut)
    /\ \A t \in Tasks :
         tk[t].pc = "pt_write" => (au.i2sInstalled /\ ~au.audioOut)
    /\ \A t \in Tasks :
         (/\ tk[t].pc = "lp_body"
          /\ au.currentSoundType = "PCM"
          /\ au.pcmPlaying
          /\ au.pcmPosition < au.pcmSizeBytes)
         => (au.i2sInstalled /\ ~au.audioOut)

\* the first part of C23 alone
C23_OwnerWhenQuiet == Quiet => (au.i2sInstalled <=> ~au.audioOut)

\* the step in which playFile of the main task returns after reaching the file
PlayFileReturns == tk["main"].pc = "pf_open" /\ tk'["main"].pc = "idle"

NoFileHandles(a) == a.mp3 = "null" /\ a.wav = "null" /\ ~a.audioFile

(* C24: playFile returns false and starts no playback when the file does not
   exist, when the extension is neither .mp3 nor .wav, or when the decoder
   fails to begin, and after such a return the mode is Idle and no decoder
   or file source is live. *)
C24_FailedPlayFileIdle ==
    [][PlayFileReturns =>
         /\ (~Exists(tk["main"].path)
               \/ ~(IsMp3(tk["main"].path) \/ IsWav(tk["main"].path)))
            => tk'["main"].last.result = "false"
         /\ tk'["main"].last.result = "false"
            => (au'.currentSoundType = "NONE" /\ NoFileHandles(au')
                  /\ ~DecoderRunning(au'))]_vars

(* C25: a playFile call that fails because the file is not found or the
   decoder does not begin leaves mode, handles, output owner, loop flag and
   current file path as they were when it was called. *)
C25_FailedPlayFileFrame ==
    [][(PlayFileReturns /\ tk'["main"].last.cause \in {"missing", "decoder"})
         => Playback(au') = Playback(snap)]_vars

(* C26: playTone returns with mode Idle; a following playFile on an existing
   .mp3 or .wav file whose decoder starts returns true with the tone driver
   uninstalled, the file output created, a running decoder and the mode
   StreamingFile with the requested loop flag; and a playTone that found the
   mode StreamingFile writes its first tone sample only after decoder, file
   source and file output are gone and the tone driver is installed again. *)
C26_ToneThenFile ==
    [][/\ (tk["main"].pc = "pt_end" /\ tk'["main"].pc = "idle")
          => au'.currentSoundType = "NONE"
       /\ (PlayFileReturns /\ Exists(tk["main"].path)
             /\ (IsMp3(tk["main"].path) \/ IsWav(tk["main"].path)))
          => (tk'["main"].last.result = "true"
                \/ tk'["main"].last.cause = "decoder")
       /\ (PlayFileReturns /\ tk'["main"].last.result = "true")
          => /\ au'.currentSoundType = "FILE"
             /\ au'.loopFile = tk["main"].loop
             /\ au'.currentFilePath = tk["main"].path
             /\ DecoderRunning(au') /\ au'.audioFile
             /\ au'.audioOut /\ ~au'.i2sInstalled
       /\ (tk'["main"].pc = "pt_write" /\ tk'["main"].sf # "none")
          => (NoFileHandles(au') /\ ~au'.audioOut /\ au'.i2sInstalled)]_vars

C26_Witness ==
    /\ tk["main"].pc = "pt_write" /\ tk["main"].sf = "stopped"
    /\ au.currentSoundType = "TONE" /\ au.i2sInstalled

\* the step of loop() that runs the decoder of a file in playback
DecodeStep ==
    /\ tk["audio"].pc = "lp_body" /\ tk'["audio"] # tk["audio"]
    /\ au.currentSoundType = "FILE" /\ DecoderRunning(au)

\* a loop() call that met the end of a file played once ends with decoder
\* and source gone and the mode no longer StreamingFile
C30_EndTornDown ==
    [][(tk["audio"].op = "loop" /\ tk["audio"].ret = "lp_end"
          /\ tk'["audio"].pc = "idle")
         => (au'.currentSoundType # "FILE" /\ NoFileHandles(au'))]_vars

(* C30: when the decoder meets the end of the file during loop(), a file
   played in a loop restarts with the mode still StreamingFile and a running
   decoder, and a file played once has decoder, source and output handles
   torn down and the mode out of StreamingFile when that loop() call ends
   (Idle unless a caller has started a tone or a buffer meanwhile). *)
C30_EndOfFile ==
    [][/\ (DecodeStep /\ au.loopFile)
          => (au'.currentSoundType = "FILE" /\ DecoderRunning(au'))
       /\ (tk["audio"].op = "loop" /\ tk["audio"].ret = "lp_end"
             /\ tk'["audio"].pc = "idle")
          => (au'.currentSoundType # "FILE" /\ NoFileHandles(au')
                /\ ~au'.audioOut)]_vars

Ceil(n, d) == (n + d - 1) \div d

\* the step of loop() that ends the playback of a buffer
PcmEnds ==
    /\ tk["audio"].pc = "lp_body" /\ au.currentSoundType = "PCM"
    /\ au'.currentSoundType = "NONE"

(* C27: a 16-bit stereo buffer of N >= 1 bytes started with playPCMBuffer is
   back in Idle after exactly ceil(N / 512) calls of loop() that got the
   mutex and whose chunk the output took whole: the call that ends the
   playback is call number ceil(N / 512). *)
C27_PcmCalls ==
    [][PcmEnds => pcmLoops + 1 = Ceil(au.pcmSizeBytes, CHUNK_SIZE)]_vars

\* ceil(N / 512) calls write the chunks and one call more ends the playback
C27_OneCallMore ==
    [][PcmEnds => pcmLoops = Ceil(au.pcmSizeBytes, CHUNK_SIZE)]_vars

\* the step in which the wait of task t for the mutex ends without the mutex
TimedOut(t) ==
    /\ tk[t].pc \in {"sf_take", "pf_take", "pf_retake"}
    /\ tk'[t].pc # tk[t].pc /\ au'.audioMutex # t

\* a wait that ends without the mutex ends the call: playFile returns false,
\* stopFile returns to its caller, nothing waits again for the same mutex and
\* the step itself changes nothing in the coordinator
C28_TimeoutReturns ==
    [][\A t \in Tasks : TimedOut(t) =>
         /\ au' = au
         /\ tk[t].pc \in {"pf_take", "pf_retake"}
            => (tk'[t].pc = "idle" /\ tk'[t].last.op = "playFile"
                  /\ tk'[t].last.result = "false")
         /\ tk[t].pc = "sf_take"
            => (tk'[t].pc = IF tk[t].ret \in {"top", "lp_end", "ip_end"}
                            THEN "idle" ELSE tk[t].ret)]_vars

(* C28: when the mutex is not acquired within the bound, playFile returns
   false and stopFile returns, without waiting again, and the abandoned
   call has changed nothing in the coordinator: mode, handles and a playback
   that ran before the call are as they were, also when the wait that fails
   is the one of playFile after its stopFile(). *)
C28_TimeoutAbandons ==
    [][\A t \in Tasks : TimedOut(t) =>
         /\ au' = au
         /\ tk[t].pc \in {"pf_take", "pf_retake"}
            => (tk'[t].pc = "idle" /\ tk'[t].last.result = "false")
         /\ tk[t].pc = "sf_take" => tk'[t].pc # "sf_take"
         /\ tk[t].sf # "stopped"]_vars

(* C29: the deferred volume loses no update: with no setVolume and no loop()
   call in progress, the output of a file in playback whose dirty flag is
   clear has the gain of the last requested volume (a clear flag makes every later loop() leave
   the gain alone, so what it has then is what it keeps). *)
C29_NoLostUpdate ==
    (tk["ble"].pc = "idle" /\ tk["audio"].pc = "idle"
       /\ au.currentSoundType = "FILE" /\ au.audioOut /\ ~volumeChanged)
    => au.gain = volume

\* a step of loop() that snoozes the ringing alarm
Snoozes == alarmRinging /\ ~alarmRinging' /\ snoozed'

\* nothing plays: the mode is Idle and no decoder or file source is left
AudioStopped(a) ==
    a.currentSoundType = "NONE" /\ NoFileHandles(a) /\ ~a.pcmPlaying

(* C31: a press while the alarm rings that no double-click follows is
   promoted to a snooze by the first loop() iteration that runs at least
   700 ms after the iteration that saw the press, and by no earlier one:
   that iteration calls snoozeAlarm() and stops the audio; an iteration
   that finds the alarm not ringing snoozes nothing. *)
C31_PressPromoted ==
    [][/\ Snoozes
          => /\ taps'.lastPress > 0 /\ taps'.pressRinging
             /\ now' - taps'.lastPress >= 700
             /\ now - taps'.lastPress < 700
             /\ AudioStopped(au')
       /\ (/\ now' # now /\ alarmRinging
           /\ taps.lastPress > 0 /\ taps.pressRinging
           /\ taps.snoozedFor # taps.lastPress
           /\ taps'.lastPress = taps.lastPress /\ ~taps'.dbl
           /\ now' - taps.lastPress >= 700)
          => Snoozes
       /\ (now' # now /\ ~alarmRinging) => (snoozed' => snoozed)]_vars

C31_Witness ==
    /\ snoozed /\ taps.lastPress > 0 /\ taps.snoozedFor = taps.lastPress
    /\ now - taps.lastPress >= 700
    /\ alarms[1].sound \notin {Tone1, Tone2, Tone3}
    /\ AudioStopped(au) /\ ~au.audioOut

(* C32: a loop() iteration that finds the double-click flag set while the
   alarm rings or is snoozed dismisses it: after the iteration the engine is
   Idle, the audio is stopped and no single click is pending; and a click
   is pending only while an alarm rings, so that a later snooze needs a new
   press during a later ringing. *)
C32_DoubleClickDismisses ==
    [][/\ (now' # now /\ taps'.dbl /\ (alarmRinging \/ snoozed))
          => /\ ~alarmRinging' /\ ~snoozed' /\ ringingAlarmId' = NO_ALARM
             /\ AudioStopped(au')
             /\ pendingSingleClickTime' = 0
       /\ pendingSingleClickTime' > 0 => alarmRinging'
       /\ Snoozes => (taps'.pressRinging /\ taps'.lastPress \notin taps'.doubled)]_vars

C32_Witness ==
    /\ taps.dbl /\ ev.op = "dismissAlarm" /\ taps.pressRinging
    /\ ~alarmRinging /\ ~snoozed
    /\ alarms[1].sound \notin {Tone1, Tone2, Tone3}
    /\ AudioStopped(au) /\ pendingSingleClickTime = 0

(* C33: an update() that reads the pin changed, or unchanged for less than
   debounceMs, leaves the stable state and the three edge flags as they are,
   so a reading that reverts before it is stable never shows; an update()
   that reads the pin as it has been for at least debounceMs leaves that
   reading as the stable state; and a flag is newly set only by an update()
   that changes the stable state: pressed by a press, released and
   double-click by a release. *)
C33_Debounce ==
    [][now' # now =>
         LET raw == btn'.lastRawState
             b1 == Update(btn, raw, now')
             stableFor == now' - taps'.rawSince
         IN  /\ stableFor < DEBOUNCE_MS
                => /\ b1.currentState = btn.currentState
                   /\ b1.pressedFlag = btn.pressedFlag
                   /\ b1.releasedFlag = btn.releasedFlag
                   /\ b1.doubleClickFlag = btn.doubleClickFlag
             /\ stableFor >= DEBOUNCE_MS => btn'.currentState = raw
             /\ (b1.pressedFlag /\ ~btn.pressedFlag)
                => (b1.currentState /\ ~btn.currentState)
             /\ ((b1.releasedFlag /\ ~btn.releasedFlag)
                   \/ (b1.doubleClickFlag /\ ~btn.doubleClickFlag))
                => (~b1.currentState /\ btn.currentState)]_vars

\* a reading that reverted at once has not shown, and a later one has
C33_Witness ==
    /\ taps.glitches = 1 /\ taps.lastPress > 2 * LOOP_MS
    /\ btn.currentState /\ now = taps.lastPress

(* C34: the ringing flag and the snoozed flag are never both true: the engine
   is in exactly one of Idle, Ringing and Snoozed. *)
C34_OneState == ~(alarmRinging /\ snoozed)

(* C35: ringingAlarmId is the sentinel 255 exactly when the engine is neither
   ringing nor snoozed, and an id below MAX_ALARMS while it is ringing or
   snoozed. *)
C35_RingingId ==
    /\ (ringingAlarmId = NO_ALARM) <=> ~(alarmRinging \/ snoozed)
    /\ (alarmRinging \/ snoozed) => ringingAlarmId \in 0 .. (MAX_ALARMS - 1)

\* snoozed with the id of the alarm that rang, and a record stored under it
C35_Witness ==
    /\ snoozed /\ ~alarmRinging /\ ev.op = "snoozeAlarm"
    /\ ringingAlarmId \in Ids
    /\ getAlarm(alarms, ringingAlarmId) # NoAlarm

(* C36: a checkAlarms call made while an alarm is ringing does not replace
   it: ringingAlarmId stays the same and no callback is invoked for another
   alarm. *)
C36_RingingNotReplaced ==
    [][(alarmRinging /\ ev'.op = "checkAlarms")
         => /\ ringingAlarmId' = ringingAlarmId
            /\ \A k \in 1 .. Len(cb') : cb'[k].id = ringingAlarmId]_vars

(* C37: a restart keeps the relative order of the records: two records that
   are in the list before and after it are in the same order, so that of two
   alarms set for the same minute the same one is found first. *)
C37_RestartKeepsOrder ==
    [][ev'.op = "construct"
         => \A i, j \in Ids :
              (FindId(alarms, i) > 0 /\ FindId(alarms, j) > 0
                 /\ FindId(alarms', i) > 0 /\ FindId(alarms', j) > 0)
              => ((FindId(alarms, i) < FindId(alarms, j))
                    <=> (FindId(alarms', i) < FindId(alarms', j)))]_vars

(* C38: a file playback whose decoder runs is ended only by an operation of
   the caller or by the loop() call in which that decoder meets the end of
   its file: the stopFile() that loop() decided for an earlier file never
   tears down a running decoder. *)
C38_OwnEndOnly ==
    [][(au.currentSoundType = "FILE" /\ DecoderRunning(au) /\ ~DecoderRunning(au'))
         => \/ tk'["main"] # tk["main"]
            \/ tk["audio"].pc = "lp_body"]_vars

(* C39: a task that runs no operation of the coordinator, or that is about
   to take the mutex in playFile, stopFile or loop, does not hold the mutex:
   every path that took it has given it before it returns or calls
   stopFile(). *)
C39_MutexReleased ==
    \A t \in Tasks :
        tk[t].pc \in {"idle", "pf_take", "pf_retake", "sf_take", "lp_take"}
        => au.audioMutex # t

\* playFile has returned false from under the mutex, and audioTask is back
\* from loop()
C39_Witness ==
    /\ tk["main"].pc = "idle" /\ tk["audio"].pc = "idle"
    /\ tk["main"].last.op = "playFile" /\ tk["main"].last.result = "false"
    /\ tk["main"].last.cause \in {"missing", "decoder"}
    /\ au.audioMutex = "free"

(* C40: a loop() call in PCM mode stays within bounds for every accepted
   format and every chunk length: the cursor stays within 0 .. size, the
   bytes read end within the borrowed buffer, and the conversion writes only
   elements of its local array. *)
C40_PcmInBounds ==
    [][(tk["audio"].pc = "lp_body" /\ tk'["audio"].pc = "idle"
          /\ au.currentSoundType = "PCM" /\ au.pcmPlaying)
         => /\ 0 <= au'.pcmPosition /\ au'.pcmPosition <= au'.pcmSizeBytes
            /\ au.pcmPosition + ReadBytes(au) <= au.pcmSizeBytes
            /\ ConvSlots(au) <= ConvCapacity(au)]_vars

====
